---- MODULE Spec2Model ----
(***************************************************************************)
(* obsidian-smart-search: the search daemon (src/daemon.py), the shared    *)
(* scoring helpers (src/shared.py) and the client's daemon path            *)
(* (src/client.py), as state machines.                                     *)
(*                                                                         *)
(* Conventions.  A Python str that is sliced, lower-cased or searched is a *)
(* sequence of one-character strings.  Index names are TLA+ strings.       *)
(* Scores and thresholds are integers in hundredths (0.45 is 45).  Vectors *)
(* are pairs of integers whose norms are integers, so that the cosine in   *)
(* hundredths is exact.                                                    *)
(***************************************************************************)
EXTENDS Integers, Sequences, FiniteSets, TLC

VARIABLES
    running,      \* SearchDaemon._running
    indices,      \* SearchDaemon.indices: insertion-ordered dict, a sequence of entries
    pc,           \* where SearchDaemon.run stands
    conns,        \* every connection made to the daemon's port, in connect order
    served,       \* how many of them s.accept() has returned (the backlog is FIFO)
    data,         \* run's local: what conn.recv(4096) returned
    results,      \* run's local: what handle_search returned, not yet serialized
    new_indices,  \* reload_all_indices' local: the mapping being built
    todo,         \* reload_all_indices' local: what is left of os.listdir's list
    model_calls,  \* how many times the daemon called self.model.encode
    fs,           \* the persisted index files: the vault cache and the central store
    fs_ops,       \* how many times the files were changed by other processes
    hs,           \* one search request: its arguments and what each search returns
    cl,           \* one run of the client: its arguments, position and results
    fn            \* one call of a helper function: its arguments, locals and value

vars == <<running, indices, pc, conns, served, data, results, new_indices, todo,
          model_calls, fs, fs_ops, hs, cl, fn>>

daemon_vars == <<running, indices, pc, conns, served, data, results, new_indices,
                 todo, model_calls, fs, fs_ops>>

(***************************************************************************)
(* Bounds of the model.                                                    *)
(***************************************************************************)
MaxConns == 2
MaxBacklog == 2
MaxFsOps == 1
MaxAdhocCalls == 2

(***************************************************************************)
(* Program constants.                                                      *)
(***************************************************************************)
DEFAULT_THRESHOLD == 45
MAX_QUERY_LENGTH == 10000
RECV_SIZE == 4096
DEFAULT_TOP_K == 20

(***************************************************************************)
(* Python str operations on sequences of characters.                       *)
(***************************************************************************)
LowerChar(c) ==
    CASE c = "A" -> "a"
      [] c = "N" -> "n"
      [] c = "P" -> "p"
      [] c = "Q" -> "q"
      [] c = "R" -> "r"
      [] c = "X" -> "x"
      [] OTHER -> c

\* str.lower()
lower(s) == [i \in 1..Len(s) |-> LowerChar(s[i])]

\* sub in s
Contains(sub, s) ==
    \E i \in 1..(Len(s) - Len(sub) + 1) : SubSeq(s, i, i + Len(sub) - 1) = sub

IsSpace(c) == c \in {" ", "\n", "\t"}

\* str.split(): the maximal runs of non-whitespace characters, in order
RECURSIVE SplitFrom(_, _, _)
SplitFrom(s, i, word) ==
    IF i > Len(s)
    THEN IF word = <<>> THEN <<>> ELSE <<word>>
    ELSE IF IsSpace(s[i])
         THEN (IF word = <<>> THEN <<>> ELSE <<word>>) \o SplitFrom(s, i + 1, <<>>)
         ELSE SplitFrom(s, i + 1, Append(word, s[i]))

split(s) == SplitFrom(s, 1, <<>>)

\* os.path.basename(path): what follows the last "/"
basename(path) ==
    LET slashes == {i \in 1..Len(path) : path[i] = "/"}
        last == IF slashes = {} THEN 0
                ELSE CHOOSE i \in slashes : \A j \in slashes : j <= i
    IN SubSeq(path, last + 1, Len(path))

Max(a, b) == IF a >= b THEN a ELSE b
Min(a, b) == IF a <= b THEN a ELSE b

\* str.lower() of an index name
NameLower(n) ==
    CASE n = "ALL" -> "all"
      [] n = "A" -> "a"
      [] OTHER -> n

(***************************************************************************)
(* shared.hybrid_boost and shared.cosine_similarity.                       *)
(***************************************************************************)
\* the three tests made one after the other, none excluding the next
RECURSIVE BoostLoop_NoElse(_, _, _, _)
BoostLoop_NoElse(path_lower, filename, words, boosts) ==
    IF words = <<>> THEN boosts
    ELSE LET word == Head(words)
             exact == \/ word = filename
                      \/ word \o <<".", "p", "y">> = filename
                      \/ word \o <<".", "m", "d">> = filename
             fb == IF exact THEN 40 ELSE IF Contains(word, filename) THEN 20 ELSE 0
             pb == IF Contains(word, path_lower) THEN 10 ELSE 0
         IN BoostLoop_NoElse(path_lower, filename, Tail(words),
                             <<IF fb > boosts[1] THEN fb ELSE boosts[1],
                               IF pb > boosts[2] THEN pb ELSE boosts[2]>>)

\* the loop of hybrid_boost: boosts is <<filename_boost, path_boost>>
RECURSIVE BoostLoop(_, _, _, _)
BoostLoop(path_lower, filename, words, boosts) ==
    IF words = <<>> THEN boosts
    ELSE LET word == Head(words)
             next ==
                 IF \/ word = filename
                    \/ word \o <<".", "p", "y">> = filename
                    \/ word \o <<".", "m", "d">> = filename
                 THEN <<Max(boosts[1], 40), boosts[2]>>
                 ELSE IF Contains(word, filename)
                      THEN <<Max(boosts[1], 20), boosts[2]>>
                      ELSE IF Contains(word, path_lower)
                           THEN <<boosts[1], Max(boosts[2], 10)>>
                           ELSE boosts
         IN BoostLoop(path_lower, filename, Tail(words), next)

\* the boost of every word added up, one word after the other
RECURSIVE hybrid_boost_Stacking(_, _)
hybrid_boost_Stacking(path, query_words) ==
    IF query_words = <<>> THEN 0
    ELSE LET b == BoostLoop(lower(path), lower(basename(path)),
                            <<Head(query_words)>>, <<0, 0>>)
         IN b[1] + b[2] + hybrid_boost_Stacking(path, Tail(query_words))

hybrid_boost(path, query_words) ==
    IF query_words = <<>> THEN 0
    ELSE LET b == BoostLoop(lower(path), lower(basename(path)), query_words, <<0, 0>>)
         IN b[1] + b[2]

Dot(u, v) == u[1] * v[1] + u[2] * v[2]

\* np.linalg.norm of a vector whose norm is an integer
Norm(v) == CHOOSE r \in 0..(Dot(v, v)) : r * r = Dot(v, v)

\* one similarity per row; a zero norm is clamped to 1e-10 and the dot product is 0
cosine_similarity(query_vec, target_vecs) ==
    [i \in 1..Len(target_vecs) |->
        LET norms == Norm(target_vecs[i]) * Norm(query_vec)
        IN IF norms = 0 THEN 0
           ELSE (Dot(target_vecs[i], query_vec) * 100) \div norms]

(***************************************************************************)
(* The embedding model: encode(text) is fixed for a fixed text.            *)
(***************************************************************************)
Encode(text) ==
    CASE text = <<"p">> -> <<1, 0>>
      [] text = <<"q">> -> <<0, 1>>
      [] OTHER -> <<3, 4>>

(***************************************************************************)
(* SearchDaemon.indices is a dict: insertion-ordered, keys unique.         *)
(***************************************************************************)
DictHas(d, name) == \E i \in 1..Len(d) : d[i].name = name

DictGet(d, name) == d[CHOOSE i \in 1..Len(d) : d[i].name = name]

\* d[name] = value
DictSet(d, name, paths, vectors) ==
    LET e == [name |-> name, paths |-> paths, vectors |-> vectors]
    IN IF DictHas(d, name)
       THEN [i \in 1..Len(d) |-> IF d[i].name = name THEN e ELSE d[i]]
       ELSE Append(d, e)

DictKeys(d) == {d[i].name : i \in 1..Len(d)}

(***************************************************************************)
(* SearchDaemon.handle_search.                                             *)
(***************************************************************************)
NoIndex == "<None>"

\* target_index, as a truth value
Truthy(target_index) == target_index \notin {NoIndex, ""}

\* the filter is dropped: every index is searched whatever the request names
ToSearch_Everything(idx, target_index) == idx

\* a name that is not loaded selects nothing
ToSearch_NoMatch(idx, target_index) ==
    IF Truthy(target_index) /\ NameLower(target_index) /= "all"
    THEN IF DictHas(idx, target_index) THEN <<DictGet(idx, target_index)>> ELSE <<>>
    ELSE idx

\* the indices to search, in dict order
ToSearch(idx, target_index) ==
    IF /\ Truthy(target_index)
       /\ NameLower(target_index) /= "all"
       /\ DictHas(idx, target_index)
    THEN <<DictGet(idx, target_index)>>
    ELSE idx

\* the inner loop over one index: the rows that pass the threshold and the scope
RECURSIVE ScanRows(_, _, _, _, _, _, _)
ScanRows(entry, scores, i, query_words, threshold, scope, hybrid) ==
    IF i > Len(scores) THEN <<>>
    ELSE LET path == entry.paths[i]
             effective_score ==
                 IF hybrid
                 THEN Min(100, scores[i] + hybrid_boost(path, query_words))
                 ELSE scores[i]
             keep == /\ effective_score >= threshold
                     /\ (scope = <<>> \/ Contains(lower(scope), lower(path)))
         IN (IF keep
             THEN <<[path |-> path, score |-> effective_score, index |-> entry.name]>>
             ELSE <<>>)
            \o ScanRows(entry, scores, i + 1, query_words, threshold, scope, hybrid)

\* the outer loop over the indices to search
RECURSIVE ScanIndices(_, _, _, _, _, _)
ScanIndices(to_search, query_vec, query_words, threshold, scope, hybrid) ==
    IF to_search = <<>> THEN <<>>
    ELSE LET entry == Head(to_search)
             scores == cosine_similarity(query_vec, entry.vectors)
         IN ScanRows(entry, scores, 1, query_words, threshold, scope, hybrid)
            \o ScanIndices(Tail(to_search), query_vec, query_words, threshold,
                           scope, hybrid)

\* list.sort(key=score, reverse=True): stable, equal scores keep their order
RECURSIVE InsertDesc(_, _)
InsertDesc(r, sorted) ==
    IF sorted = <<>> THEN <<r>>
    ELSE IF Head(sorted).score >= r.score
         THEN <<Head(sorted)>> \o InsertDesc(r, Tail(sorted))
         ELSE <<r>> \o sorted

RECURSIVE SortDesc(_)
SortDesc(rs) ==
    IF rs = <<>> THEN <<>>
    ELSE InsertDesc(rs[Len(rs)], SortDesc(SubSeq(rs, 1, Len(rs) - 1)))

\* no deduplication: the first top_k rows of the sorted list
Dedupe_KeepAll(rs, seen, unique, top_k) == SubSeq(rs, 1, Min(Len(rs), top_k))

\* the deduplication loop: the test of top_k follows the append
RECURSIVE Dedupe(_, _, _, _)
Dedupe(rs, seen, unique, top_k) ==
    IF rs = <<>> THEN unique
    ELSE LET r == Head(rs)
             unique2 == IF r.path \notin seen THEN Append(unique, r) ELSE unique
         IN IF Len(unique2) >= top_k THEN unique2
            ELSE Dedupe(Tail(rs), seen \cup {r.path}, unique2, top_k)

\* paths[i] raises IndexError when an index searched has more vectors than paths
SearchRaises(idx, target_index) ==
    \E i \in 1..Len(ToSearch(idx, target_index)) :
        Len(ToSearch(idx, target_index)[i].vectors)
            > Len(ToSearch(idx, target_index)[i].paths)

\* the list is not sorted before the deduplication
handle_search_Unsorted(idx, query, top_k, threshold, scope, target_index, hybrid) ==
    LET query_vec == Encode(query)
        query_words == IF hybrid THEN split(lower(query)) ELSE <<>>
        all_results == ScanIndices(ToSearch(idx, target_index), query_vec,
                                   query_words, threshold, scope, hybrid)
        unique == {Dedupe(rs, {}, <<>>, top_k) : rs \in {all_results}}
    IN CHOOSE rs \in unique : TRUE

\* the value returned when nothing is raised
handle_search(idx, query, top_k, threshold, scope, target_index, hybrid) ==
    LET query_vec == Encode(query)
        query_words == IF hybrid THEN split(lower(query)) ELSE <<>>
        all_results == ScanIndices(ToSearch(idx, target_index), query_vec,
                                   query_words, threshold, scope, hybrid)
        \* all_results.sort(...) sorts the one list in place: each stage is
        \* computed once and handed on as a value
        sorted == {SortDesc(rs) : rs \in {all_results}}
        unique == {Dedupe(rs, {}, <<>>, top_k) : rs \in sorted}
    IN CHOOSE rs \in unique : TRUE

(***************************************************************************)
(* The persisted index files.  One file of the vault (vault_cache.npz) and *)
(* the .npz files of the central store, named by their index name.         *)
(***************************************************************************)
P_PLAN == <<"n", "/", "p", ".", "m", "d">>
P_QPY == <<"x", "/", "q", ".", "p", "y">>
P_R == <<"N", "/", "r">>

Absent == [kind |-> "absent", paths |-> <<>>, vectors |-> <<>>]
Corrupt == [kind |-> "corrupt", paths |-> <<>>, vectors |-> <<>>]
V1 == [kind |-> "ok", paths |-> <<P_PLAN>>, vectors |-> << <<1, 0>> >>]
A1 == [kind |-> "ok", paths |-> <<P_PLAN, P_QPY>>, vectors |-> << <<3, 4>>, <<0, 1>> >>]
A2 == [kind |-> "ok", paths |-> <<P_QPY>>, vectors |-> << <<1, 0>> >>]
L1 == [kind |-> "ok", paths |-> <<P_R>>, vectors |-> << <<3, 4>> >>]
\* an archive np.load reads whose paths array is shorter than its vectors array
M1 == [kind |-> "ok", paths |-> <<P_PLAN>>, vectors |-> << <<1, 0>>, <<0, 1>> >>]

StoreNames == {"a", "ALL"}
FileNames == {"vault"} \cup StoreNames

\* what a process may write under each name
FileChoices(name) ==
    CASE name = "vault" -> {V1}
      [] name = "a" -> {A1, A2, M1, Corrupt}
      [] OTHER -> {L1}

\* os.listdir(CENTRAL_INDEX_STORE), filtered to *.npz: any order
RECURSIVE Perms(_)
Perms(S) ==
    IF S = {} THEN {<<>>}
    ELSE UNION {{<<x>> \o p : p \in Perms(S \ {x})} : x \in S}

Listed(f) == {n \in StoreNames : f.files[n].kind /= "absent"}

\* np.load(path) and the two reads data["paths"], data["vectors"] succeed
Loadable(f, name) == f.files[name].kind = "ok"

\* a file that cannot be loaded aborts the reload: what was loaded is dropped
LoadInto_Reset(m, f, name) ==
    IF Loadable(f, name)
    THEN DictSet(m, name, f.files[name].paths, f.files[name].vectors)
    ELSE <<>>

\* the body of the try in reload_all_indices: load one file into the mapping,
\* or leave the mapping as it is when np.load raises
LoadInto(m, f, name) ==
    IF Loadable(f, name)
    THEN DictSet(m, name, f.files[name].paths, f.files[name].vectors)
    ELSE m

RECURSIVE LoadStore(_, _, _)
LoadStore(m, f, order) ==
    IF order = <<>> THEN m
    ELSE LoadStore(LoadInto(m, f, Head(order)), f, Tail(order))

\* reload_all_indices run against files that do not change meanwhile
ReloadAll(f, order) ==
    LET m1 == IF f.files["vault"].kind /= "absent" THEN LoadInto(<<>>, f, "vault")
              ELSE <<>>
    IN IF f.store THEN LoadStore(m1, f, order) ELSE m1

FsStates ==
    {[store |-> FALSE, files |-> [n \in FileNames |-> IF n = "vault" THEN v ELSE Absent]]
        : v \in {Absent, V1}}
    \cup
    {[store |-> TRUE, files |-> fl] :
        fl \in {g \in [FileNames -> {Absent, Corrupt, V1, A1, A2, M1, L1}] :
                  \A n \in FileNames : g[n] \in FileChoices(n) \cup {Absent}}}

(***************************************************************************)
(* client.search_indexed_files, and the candidate index list of the main   *)
(* block.  An index is named by its label; its file is looked up in the    *)
(* files f.                                                                *)
(***************************************************************************)
\* the filter of the list by the requested index always takes the filtered list
FilterIndices_Strict(all, effective_index) ==
    IF Truthy(effective_index) /\ NameLower(effective_index) /= "all"
    THEN SelectSeq(all, LAMBDA n : n = effective_index)
    ELSE all

\* the filter of the index list by the requested index: a name that matches
\* nothing leaves the whole list
FilterIndices(all, effective_index) ==
    IF Truthy(effective_index) /\ NameLower(effective_index) /= "all"
    THEN LET filtered == SelectSeq(all, LAMBDA n : n = effective_index)
         IN IF filtered = <<>> /\ all /= <<>> THEN all ELSE filtered
    ELSE all

\* indices = [("vault", vault_cache)] + the *.npz files of the store, as listed
BuildIndices(f, order, effective_index) ==
    FilterIndices(<<"vault">> \o (IF f.store THEN order ELSE <<>>), effective_index)

\* the body of the loop over indices for one label: a missing file is passed
\* over, a file np.load cannot read raises into the except clause, and so does
\* paths[i] past the end of paths, after the rows before it were appended
ScanFile(f, label, query_vec, query_words, threshold, scope, hybrid) ==
    LET file == f.files[label] IN
    IF file.kind /= "ok" THEN <<>>
    ELSE LET entry == [name |-> label, paths |-> file.paths, vectors |-> file.vectors]
             scores == cosine_similarity(query_vec, file.vectors)
             reached == SubSeq(scores, 1, Min(Len(scores), Len(file.paths)))
         IN ScanRows(entry, reached, 1, query_words, threshold, scope, hybrid)

RECURSIVE ScanFiles(_, _, _, _, _, _, _)
ScanFiles(f, labels, query_vec, query_words, threshold, scope, hybrid) ==
    IF labels = <<>> THEN <<>>
    ELSE ScanFile(f, Head(labels), query_vec, query_words, threshold, scope, hybrid)
         \o ScanFiles(f, Tail(labels), query_vec, query_words, threshold, scope, hybrid)

search_indexed_files(f, query, labels, top_k, threshold, scope, hybrid) ==
    LET query_vec == Encode(query)
        query_words == IF hybrid THEN split(lower(query)) ELSE <<>>
        all_results == ScanFiles(f, labels, query_vec, query_words, threshold,
                                 scope, hybrid)
        sorted == {SortDesc(rs) : rs \in {all_results}}
        unique == {Dedupe(rs, {}, <<>>, top_k) : rs \in sorted}
    IN CHOOSE rs \in unique : TRUE

(***************************************************************************)
(* client.search_unindexed_directory.  A directory is the list of its      *)
(* indexable files in the order os.walk yields them, each with the         *)
(* embeddings of the chunks chunk_text cuts it into.                       *)
(***************************************************************************)
AUTOSCAN == "autoscan"

DirFile(path, chunk_vecs) == [path |-> path, chunk_vecs |-> chunk_vecs]

\* no indexable file; one file of two chunks; two files, the first of two chunks
DIR_EMPTY == <<>>
DIR_ONE == <<DirFile(P_PLAN, << <<1, 0>>, <<3, 4>> >>)>>
DIR_TWO == <<DirFile(P_QPY, << <<3, 4>>, <<1, 0>> >>), DirFile(P_R, << <<0, 1>> >>)>>
Dirs == {DIR_EMPTY, DIR_ONE, DIR_TWO}

\* chunk_paths: the path of the file, once per chunk
RECURSIVE chunk_paths(_)
chunk_paths(dir) ==
    IF dir = <<>> THEN <<>>
    ELSE [i \in 1..Len(Head(dir).chunk_vecs) |-> Head(dir).path]
         \o chunk_paths(Tail(dir))

\* doc_vecs: the embeddings of all chunks, in the same order
RECURSIVE doc_vecs(_)
doc_vecs(dir) ==
    IF dir = <<>> THEN <<>> ELSE Head(dir).chunk_vecs \o doc_vecs(Tail(dir))

\* what np.savez_compressed(cache_path, paths=chunk_paths, vectors=doc_vecs) writes
DirCache(dir) == [kind |-> "ok", paths |-> chunk_paths(dir), vectors |-> doc_vecs(dir)]

\* the rows with score >= threshold, no scope and no boost
AdhocRows(paths, vectors, query, threshold) ==
    LET entry == [name |-> AUTOSCAN, paths |-> paths, vectors |-> vectors]
    IN ScanRows(entry, cosine_similarity(Encode(query), vectors), 1, <<>>,
                threshold, <<>>, FALSE)

\* results[:top_k]
Slice(rs, top_k) == SubSeq(rs, 1, Min(Len(rs), top_k))

\* the branch that reuses a persisted cache: sort, then the first top_k rows
AdhocCached(cache, query, top_k, threshold) ==
    LET ranked == {SortDesc(rs) : rs \in {AdhocRows(cache.paths, cache.vectors,
                                                    query, threshold)}}
    IN Slice(CHOOSE rs \in ranked : TRUE, top_k)

\* the branch that walks, chunks and embeds: sort, deduplicate, top_k
AdhocFresh(dir, query, top_k, threshold) ==
    LET ranked == {SortDesc(rs) : rs \in {AdhocRows(chunk_paths(dir), doc_vecs(dir),
                                                    query, threshold)}}
        unique == {Dedupe(rs, {}, <<>>, top_k) : rs \in ranked}
    IN CHOOSE rs \in unique : TRUE

\* one call: the branch taken, the list returned, the cache file afterwards
search_unindexed_directory(dir, cache, query, top_k, threshold) ==
    IF cache.kind = "ok"
    THEN [branch |-> "cached", cache |-> cache,
          result |-> AdhocCached(cache, query, top_k, threshold)]
    ELSE IF dir = <<>>
         THEN [branch |-> "no_files", cache |-> cache, result |-> <<>>]
         ELSE [branch |-> "scanned", cache |-> DirCache(dir),
               result |-> AdhocFresh(dir, query, top_k, threshold)]

(***************************************************************************)
(* Requests.  A payload is what one client writes on its connection.       *)
(***************************************************************************)
NoQuery == [qtype |-> "absent", text |-> <<>>, len |-> 0]
Q(text) == [qtype |-> "str", text |-> text, len |-> Len(text)]
\* a query of 10,001 characters; its characters are never looked at
LongQuery == [qtype |-> "str", text |-> <<"x">>, len |-> MAX_QUERY_LENGTH + 1]
NullQuery == [qtype |-> "null", text |-> <<>>, len |-> 0]

Payload(kind, command, query, index, nbytes) ==
    [kind |-> kind, command |-> command, query |-> query, index |-> index,
     scope |-> <<>>, threshold |-> DEFAULT_THRESHOLD, hybrid |-> TRUE,
     nbytes |-> nbytes]

EmptyPayload == Payload("empty", "", NoQuery, NoIndex, 0)      \* closed, nothing sent
ResetPayload == Payload("reset", "", NoQuery, NoIndex, 0)      \* connection reset
GarbagePayload == Payload("garbage", "", NoQuery, NoIndex, 8)  \* not JSON
ListPayload == Payload("nonobj", "", NoQuery, NoIndex, 3)      \* the JSON text [1]
PingPayload == Payload("obj", "ping", NoQuery, NoIndex, 19)
ReloadPayload == Payload("obj", "reload", NoQuery, NoIndex, 21)
StopPayload == Payload("obj", "stop", NoQuery, NoIndex, 19)
StatusPayload == Payload("obj", "status", NoQuery, NoIndex, 21) \* no such command
SearchPayload == Payload("obj", "search", Q(<<"p">>), NoIndex, 100)
LongSearchPayload == Payload("obj", "search", LongQuery, NoIndex, 10100)
NullSearchPayload == Payload("obj", "search", NullQuery, NoIndex, 103)

Payloads ==
    {EmptyPayload, ResetPayload, GarbagePayload, ListPayload, PingPayload,
     ReloadPayload, StopPayload, StatusPayload, SearchPayload, LongSearchPayload,
     NullSearchPayload}

NoData == Payload("none", "", NoQuery, NoIndex, 0)

\* conn.recv(4096): at most 4096 bytes of what was sent; a cut JSON object is
\* no JSON text
Recv(p) == IF p.nbytes <= RECV_SIZE THEN p ELSE [p EXCEPT !.kind = "cut"]

(***************************************************************************)
(* Replies.                                                                *)
(***************************************************************************)
Reply(kind, status, rs) == [kind |-> kind, status |-> status, results |-> rs]
ErrorReply == Reply("error", "", <<>>)
OkReply == Reply("status", "ok", <<>>)
PongReply == Reply("status", "pong", <<>>)
ShutdownReply == Reply("status", "ok, shutting down", <<>>)
ResultsReply(rs) == Reply("results", "", rs)

(***************************************************************************)
(* SearchDaemon.run: the accept loop.                                      *)
(***************************************************************************)
Terminated == pc \in {"stopped", "crashed"}

Answer(cs, c, r) == [cs EXCEPT ![c].replies = Append(@, r)]

\* leaving "with conn:"
CloseConn(cs, c) == [cs EXCEPT ![c].stage = "closed"]

\* "while True:": the flag is never looked at
LoopTest_Always == TRUE

\* the test of "while self._running:"
LoopTest == running

Loop ==
    /\ pc = "loop"
    /\ pc' = IF LoopTest THEN "accept" ELSE "stopped"
    /\ UNCHANGED <<running, indices, conns, served, data, results, new_indices,
                   todo, model_calls, fs, fs_ops, hs, cl, fn>>

\* accept in a thread of its own, a handler per connection
CanAccept_Concurrent == pc \notin {"loop", "stopped", "crashed"}

\* s.accept() is called from the head of the loop body only
CanAccept == pc = "accept"

Accept ==
    /\ CanAccept
    /\ served < Len(conns)
    /\ served' = served + 1
    /\ conns' = [conns EXCEPT ![served + 1].stage = "active"]
    /\ pc' = "recv"
    /\ UNCHANGED <<running, indices, data, results, new_indices, todo,
                   model_calls, fs, fs_ops, hs, cl, fn>>

\* socket.timeout after one second without a connection: continue
AcceptTimeout ==
    /\ pc = "accept"
    /\ served = Len(conns)
    /\ pc' = "loop"
    /\ UNCHANGED <<running, indices, conns, served, data, results, new_indices,
                   todo, model_calls, fs, fs_ops, hs, cl, fn>>

\* raw = conn.recv(4096); an empty read or an OSError: continue
RecvRequest ==
    /\ pc = "recv"
    /\ LET p == conns[served].payload
       IN IF p.kind \in {"empty", "reset"}
          THEN /\ conns' = CloseConn(conns, served)
               /\ pc' = "loop"
               /\ UNCHANGED data
          ELSE /\ data' = Recv(p)
               /\ pc' = "dispatch"
               /\ UNCHANGED conns
    /\ UNCHANGED <<running, indices, served, results, new_indices, todo,
                   model_calls, fs, fs_ops, hs, cl, fn>>

\* "except json.JSONDecodeError: pass": the text that does not parse is dropped
Outcome_Swallow(d) ==
    IF d.kind \in {"garbage", "cut"} THEN "none"
    ELSE IF d.kind = "nonobj" THEN "raise"
    ELSE IF d.command = "search"
         THEN IF d.query.qtype = "null" THEN "raise"
              ELSE IF d.query.len > MAX_QUERY_LENGTH THEN "too_long"
                   ELSE "search"
         ELSE IF d.command \in {"reload", "ping", "stop"} THEN d.command
              ELSE "none"

\* which way the second try block goes for the text read
Outcome(d) ==
    IF d.kind \in {"garbage", "cut"} THEN "json_error"      \* json.loads raises
    ELSE IF d.kind = "nonobj" THEN "raise"                  \* a list has no .get
    ELSE IF d.command = "search"
         THEN IF d.query.qtype = "null" THEN "raise"        \* len(None)
              ELSE IF d.query.len > MAX_QUERY_LENGTH THEN "too_long"
                   ELSE "search"
         ELSE IF d.command \in {"reload", "ping", "stop"} THEN d.command
              ELSE "none"

\* the error object: the too-long query, and the except clause of json.loads
DispatchError ==
    /\ pc = "dispatch"
    /\ Outcome(data) \in {"json_error", "too_long"}
    /\ conns' = CloseConn(Answer(conns, served, ErrorReply), served)
    /\ data' = NoData
    /\ pc' = "loop"
    /\ UNCHANGED <<running, indices, served, results, new_indices, todo,
                   model_calls, fs, fs_ops, hs, cl, fn>>

\* an exception that run does not catch: the process ends with a traceback
DispatchRaise ==
    /\ pc = "dispatch"
    /\ Outcome(data) = "raise"
    /\ conns' = CloseConn(conns, served)
    /\ data' = NoData
    /\ pc' = "crashed"
    /\ UNCHANGED <<running, indices, served, results, new_indices, todo,
                   model_calls, fs, fs_ops, hs, cl, fn>>

\* handle_search raises IndexError, which run does not catch
DispatchSearchRaise ==
    /\ pc = "dispatch"
    /\ Outcome(data) = "search"
    /\ SearchRaises(indices, data.index)
    /\ model_calls' = model_calls + 1
    /\ conns' = CloseConn(conns, served)
    /\ data' = NoData
    /\ pc' = "crashed"
    /\ UNCHANGED <<running, indices, served, results, new_indices, todo,
                   fs, fs_ops, hs, cl, fn>>

\* results = self.handle_search(...)
DispatchSearch ==
    /\ pc = "dispatch"
    /\ Outcome(data) = "search"
    /\ ~SearchRaises(indices, data.index)
    /\ results' = handle_search(indices, data.query.text, DEFAULT_TOP_K,
                                data.threshold, data.scope, data.index, data.hybrid)
    /\ model_calls' = model_calls + 1
    /\ pc' = "send_results"
    /\ UNCHANGED <<running, indices, conns, served, data, new_indices, todo,
                   fs, fs_ops, hs, cl, fn>>

\* conn.sendall(json.dumps(results))
SendResults ==
    /\ pc = "send_results"
    /\ conns' = CloseConn(Answer(conns, served, ResultsReply(results)), served)
    /\ results' = <<>>
    /\ data' = NoData
    /\ pc' = "loop"
    /\ UNCHANGED <<running, indices, served, new_indices, todo, model_calls,
                   fs, fs_ops, hs, cl, fn>>

DispatchPing ==
    /\ pc = "dispatch"
    /\ Outcome(data) = "ping"
    /\ conns' = CloseConn(Answer(conns, served, PongReply), served)
    /\ data' = NoData
    /\ pc' = "loop"
    /\ UNCHANGED <<running, indices, served, results, new_indices, todo,
                   model_calls, fs, fs_ops, hs, cl, fn>>

\* a command that is none of the four: no branch is taken, nothing is sent
DispatchNone ==
    /\ pc = "dispatch"
    /\ Outcome(data) = "none"
    /\ conns' = CloseConn(conns, served)
    /\ data' = NoData
    /\ pc' = "loop"
    /\ UNCHANGED <<running, indices, served, results, new_indices, todo,
                   model_calls, fs, fs_ops, hs, cl, fn>>

\* stop: the reply first ...
DispatchStop ==
    /\ pc = "dispatch"
    /\ Outcome(data) = "stop"
    /\ conns' = Answer(conns, served, ShutdownReply)
    /\ pc' = "stop_flag"
    /\ UNCHANGED <<running, indices, served, data, results, new_indices, todo,
                   model_calls, fs, fs_ops, hs, cl, fn>>

\* ... then self._running = False
StopFlag ==
    /\ pc = "stop_flag"
    /\ running' = FALSE
    /\ conns' = CloseConn(conns, served)
    /\ data' = NoData
    /\ pc' = "loop"
    /\ UNCHANGED <<indices, served, results, new_indices, todo, model_calls,
                   fs, fs_ops, hs, cl, fn>>

\* _handle_signal, on SIGTERM or SIGINT, between any two steps of run
Signal ==
    /\ ~Terminated
    /\ running
    /\ running' = FALSE
    /\ UNCHANGED <<indices, pc, conns, served, data, results, new_indices, todo,
                   model_calls, fs, fs_ops, hs, cl, fn>>

(***************************************************************************)
(* SearchDaemon.reload_all_indices, one file at a time.                    *)
(***************************************************************************)
DispatchReload ==
    /\ pc = "dispatch"
    /\ Outcome(data) = "reload"
    /\ new_indices' = <<>>
    /\ pc' = "reload_vault"
    /\ UNCHANGED <<running, indices, conns, served, data, results, todo,
                   model_calls, fs, fs_ops, hs, cl, fn>>

ReloadVault ==
    /\ pc = "reload_vault"
    /\ new_indices' = IF fs.files["vault"].kind /= "absent"
                      THEN LoadInto(new_indices, fs, "vault")
                      ELSE new_indices
    /\ pc' = "reload_list"
    /\ UNCHANGED <<running, indices, conns, served, data, results, todo,
                   model_calls, fs, fs_ops, hs, cl, fn>>

ReloadList ==
    /\ pc = "reload_list"
    /\ IF fs.store THEN todo' \in Perms(Listed(fs)) ELSE todo' = <<>>
    /\ pc' = "reload_file"
    /\ UNCHANGED <<running, indices, conns, served, data, results, new_indices,
                   model_calls, fs, fs_ops, hs, cl, fn>>

\* the mapping in use is filled file by file
ReloadFile_InPlace ==
    /\ pc = "reload_file"
    /\ todo /= <<>>
    /\ indices' = LoadInto(indices, fs, Head(todo))
    /\ todo' = Tail(todo)
    /\ UNCHANGED <<running, new_indices, pc, conns, served, data, results,
                   model_calls, fs, fs_ops, hs, cl, fn>>

ReloadFile ==
    /\ pc = "reload_file"
    /\ todo /= <<>>
    /\ new_indices' = LoadInto(new_indices, fs, Head(todo))
    /\ todo' = Tail(todo)
    /\ UNCHANGED <<running, indices, pc, conns, served, data, results,
                   model_calls, fs, fs_ops, hs, cl, fn>>

\* the new mapping is merged into the one in use: what it lacks stays
ReloadSwap_KeepOld ==
    /\ pc = "reload_file"
    /\ todo = <<>>
    /\ indices' = new_indices
                   \o SelectSeq(indices, LAMBDA e : ~DictHas(new_indices, e.name))
    /\ new_indices' = <<>>
    /\ pc' = "reload_reply"
    /\ UNCHANGED <<running, conns, served, data, results, todo, model_calls,
                   fs, fs_ops, hs, cl, fn>>

\* self.indices = new_indices
ReloadSwap ==
    /\ pc = "reload_file"
    /\ todo = <<>>
    /\ indices' = new_indices
    /\ new_indices' = <<>>
    /\ pc' = "reload_reply"
    /\ UNCHANGED <<running, conns, served, data, results, todo, model_calls,
                   fs, fs_ops, hs, cl, fn>>

ReloadReply ==
    /\ pc = "reload_reply"
    /\ conns' = CloseConn(Answer(conns, served, OkReply), served)
    /\ data' = NoData
    /\ pc' = "loop"
    /\ UNCHANGED <<running, indices, served, results, new_indices, todo,
                   model_calls, fs, fs_ops, hs, cl, fn>>

(***************************************************************************)
(* The environment: clients that connect, processes that write or remove   *)
(* index files (the indexer, the client's --remove and ad-hoc search).     *)
(***************************************************************************)
Connect ==
    /\ ~Terminated
    /\ Len(conns) < MaxConns
    /\ Len(conns) - served < MaxBacklog
    /\ \E p \in Payloads :
          conns' = Append(conns, [payload |-> p, stage |-> "queued", replies |-> <<>>])
    /\ UNCHANGED <<running, indices, pc, served, data, results, new_indices, todo,
                   model_calls, fs, fs_ops, hs, cl, fn>>

SaveIndex ==
    /\ ~Terminated
    /\ fs_ops < MaxFsOps
    /\ \E n \in FileNames : \E c \in FileChoices(n) :
          /\ fs.files[n] /= c
          /\ fs' = [store |-> (fs.store \/ n /= "vault"),
                    files |-> [fs.files EXCEPT ![n] = c]]
    /\ fs_ops' = fs_ops + 1
    /\ UNCHANGED <<running, indices, pc, conns, served, data, results,
                   new_indices, todo, model_calls, hs, cl, fn>>

RemoveFile ==
    /\ ~Terminated
    /\ fs_ops < MaxFsOps
    /\ \E n \in FileNames :
          /\ fs.files[n].kind /= "absent"
          /\ fs' = [fs EXCEPT !.files[n] = Absent]
    /\ fs_ops' = fs_ops + 1
    /\ UNCHANGED <<running, indices, pc, conns, served, data, results,
                   new_indices, todo, model_calls, hs, cl, fn>>

(***************************************************************************)
(* The daemon after SearchDaemon(vault_path): flag set, indices loaded.    *)
(***************************************************************************)
NoCall == [phase |-> "idle"]

\* a fresh installation, and one with the vault and two store indices
InitFs ==
    {[store |-> FALSE, files |-> [n \in FileNames |-> Absent]],
     [store |-> TRUE,
      files |-> [n \in FileNames |->
                   CASE n = "vault" -> V1 [] n = "a" -> A1 [] OTHER -> L1]]}

Init ==
    /\ running = TRUE
    /\ fs \in InitFs
    /\ \E order \in Perms(Listed(fs)) : indices = ReloadAll(fs, order)
    /\ pc = "loop"
    /\ conns = <<>>
    /\ served = 0
    /\ data = NoData
    /\ results = <<>>
    /\ new_indices = <<>>
    /\ todo = <<>>
    /\ model_calls = 0
    /\ fs_ops = 0
    /\ hs = NoCall
    /\ cl = NoCall
    /\ fn = NoCall

Next ==
    \/ Loop \/ Accept \/ AcceptTimeout \/ RecvRequest
    \/ DispatchError \/ DispatchRaise \/ DispatchSearchRaise \/ DispatchSearch
    \/ SendResults
    \/ DispatchPing \/ DispatchNone \/ DispatchStop \/ StopFlag \/ Signal
    \/ DispatchReload \/ ReloadVault \/ ReloadList \/ ReloadFile \/ ReloadSwap
    \/ ReloadReply
    \/ Connect \/ SaveIndex \/ RemoveFile

Spec == Init /\ [][Next]_vars

\* what the daemon process does by itself; a blocked accept returns after 1 s
DaemonStep ==
    \/ Loop \/ Accept \/ AcceptTimeout \/ RecvRequest
    \/ DispatchError \/ DispatchRaise \/ DispatchSearchRaise \/ DispatchSearch
    \/ SendResults
    \/ DispatchPing \/ DispatchNone \/ DispatchStop \/ StopFlag
    \/ DispatchReload \/ ReloadVault \/ ReloadList \/ ReloadFile \/ ReloadSwap
    \/ ReloadReply

FairSpec == Spec /\ WF_vars(DaemonStep)

(***************************************************************************)
(* Properties of the daemon.                                               *)
(***************************************************************************)
ConnIds == 1..Len(conns)
ActiveConns == {c \in ConnIds : conns[c].stage = "active"}
ReloadPcs == {"reload_vault", "reload_list", "reload_file"}
IsCmd(c, command) ==
    conns[c].payload.kind = "obj" /\ conns[c].payload.command = command

\* C1: connections are handled one at a time, each to its end before the next
\* accept: at most one connection is open on the daemon's side, it is the
\* last one accepted, none is open while the daemon is at the head of the loop
\* or in accept, and a reload never runs while search results are held.
C1_OneAtATime ==
    /\ Cardinality(ActiveConns) <= 1
    /\ ActiveConns \subseteq {served}
    /\ (pc \in {"loop", "accept"} => ActiveConns = {})
    /\ \A c \in ConnIds : /\ (c < served => conns[c].stage = "closed")
                           /\ (c > served => conns[c].stage = "queued")
    /\ (pc \in ReloadPcs => (results = <<>> /\ IsCmd(served, "reload")))
    /\ (pc = "send_results" =>
          (new_indices = <<>> /\ todo = <<>> /\ IsCmd(served, "search")))

\* a search is being answered while another client waits in the backlog
C1_Witness == pc = "send_results" /\ served < Len(conns)

\* C2: the mapping in use changes in one step only, the assignment of the
\* completely built new mapping; no reload is under way when a request is
\* dispatched; the replies of connections already closed never change.
C2_AtomicSwap ==
    [][ /\ (indices' /= indices =>
              (pc = "reload_file" /\ todo = <<>> /\ indices' = new_indices))
        /\ (pc = "dispatch" => (new_indices = <<>> /\ todo = <<>>))
        /\ \A c \in ConnIds : (conns[c].stage = "closed" => conns'[c] = conns[c])
      ]_vars

\* a reload has just replaced the mapping an earlier search was answered from,
\* and the same search would now be answered differently
C2_Witness ==
    /\ pc = "reload_reply"
    /\ \E c \in ConnIds :
          /\ c < served
          /\ conns[c].payload = SearchPayload
          /\ conns[c].replies /= <<>>
          /\ conns[c].replies[1].results /= <<>>
          /\ conns[c].replies[1].results /=
                handle_search(indices, SearchPayload.query.text, DEFAULT_TOP_K,
                              SearchPayload.threshold, SearchPayload.scope,
                              SearchPayload.index, SearchPayload.hybrid)

\* C3: the daemon has left the accept loop only with the running flag cleared
\* (by a stop command or a signal).
C3_LeavesOnlyByStopOrSignal == Terminated => ~running

\* C4: every connection on which a request was read got exactly one reply
\* before it was closed.
C4_OneReplyEach ==
    \A c \in ConnIds :
        (conns[c].stage = "closed" /\ conns[c].payload.kind \notin {"empty", "reset"})
            => Len(conns[c].replies) = 1

\* C5: a stop command is answered before the flag is cleared, and once it is
\* handled the flag is clear and no later connection is ever accepted.
C5_StopThenExit ==
    \A c \in ConnIds :
        IsCmd(c, "stop") =>
            /\ ((conns[c].stage = "active" /\ pc = "stop_flag")
                    => conns[c].replies = <<ShutdownReply>>)
            /\ (conns[c].stage = "closed" =>
                    (/\ conns[c].replies = <<ShutdownReply>>
                     /\ ~running
                     /\ served = c
                     /\ pc \in {"loop", "stopped"}))

\* the daemon has stopped on a stop command while another client was waiting
C5_Witness ==
    /\ pc = "stopped"
    /\ served < Len(conns)
    /\ served > 0
    /\ IsCmd(served, "stop")
    /\ conns[served].replies = <<ShutdownReply>>

\* C6: once the running flag is clear the daemon reaches Stopped (the end of
\* run, after the loop), the connection in progress being completed.
C6_EventuallyStopped == (~running) ~> (pc = "stopped")

\* C7: the step that handles a search whose query is longer than
\* MAX_QUERY_LENGTH writes the error object, closes the connection and changes
\* nothing else: no call of the model, no search results, same mapping, same flag.
IsLongSearch(p) ==
    p.kind = "obj" /\ p.command = "search" /\ p.query.qtype = "str"
    /\ p.query.len > MAX_QUERY_LENGTH

C7_TooLongRejected ==
    [][ (pc = "dispatch" /\ pc' /= pc /\ IsLongSearch(conns[served].payload)) =>
            (/\ pc' = "loop"
             /\ conns'[served].replies = <<ErrorReply>>
             /\ conns'[served].stage = "closed"
             /\ UNCHANGED <<indices, running, model_calls, results, new_indices>>)
      ]_vars

\* a too-long search has been answered
C7_Witness ==
    \E c \in ConnIds :
        /\ IsLongSearch(conns[c].payload)
        /\ conns[c].stage = "closed"
        /\ conns[c].replies = <<ErrorReply>>
        /\ model_calls = 0
        /\ indices /= <<>>

\* C16: an archive whose paths and vectors arrays differ in length is never
\* in the daemon's mapping, and no search request makes the daemon crash
\* because of one: the daemon crashes only on a request that is no JSON object
\* or whose query is null.
C16_MismatchSkipped ==
    /\ \A i \in 1..Len(indices) : Len(indices[i].paths) = Len(indices[i].vectors)
    /\ (pc = "crashed" =>
          (served >= 1 /\ Outcome(Recv(conns[served].payload)) = "raise"))

(***************************************************************************)
(* handle_search as a function of its arguments: one call, on any mapping  *)
(* reload_all_indices can build.                                           *)
(***************************************************************************)
IndexMappings == {ReloadAll(f, order) : f \in FsStates, order \in Perms(StoreNames)}

HsQueries == {<<"p">>, <<"q">>, <<"r", " ", "P">>}
HsScopes == {<<>>, <<"n", "/">>, <<"X">>}
HsTargets == {NoIndex, "", "all", "ALL", "a", "vault", "b"}
HsThresholds == {DEFAULT_THRESHOLD, 80}
HsTopKs == {1, 2, DEFAULT_TOP_K}

\* the same request goes to the daemon, over the mapping it loaded from the
\* files, and to the client's local search, over the files themselves
HsInit ==
    /\ \E f \in FsStates : \E order \in Perms(StoreNames) : \E ix \in HsTargets :
          hs \in [phase : {"call"}, indices : {ReloadAll(f, order)}, query : HsQueries,
                  scope : HsScopes, target_index : {ix},
                  threshold : HsThresholds, hybrid : BOOLEAN, top_k : HsTopKs,
                  searched : {<<>>}, result : {<<>>},
                  files : {f}, order : {order},
                  labels : {BuildIndices(f, order, ix)},
                  lphase : {"call"}, local : {<<>>}]
    /\ running = TRUE
    /\ indices = <<>>
    /\ pc = "loop"
    /\ conns = <<>>
    /\ served = 0
    /\ data = NoData
    /\ results = <<>>
    /\ new_indices = <<>>
    /\ todo = <<>>
    /\ model_calls = 0
    /\ fs = [store |-> FALSE, files |-> [n \in FileNames |-> Absent]]
    /\ fs_ops = 0
    /\ cl = NoCall
    /\ fn = NoCall

\* searched: the labels of to_search, in the order the loop visits them
HandleSearchCall ==
    /\ hs.phase = "call"
    /\ IF SearchRaises(hs.indices, hs.target_index)
       THEN hs' = [hs EXCEPT !.phase = "raised"]
       ELSE hs' = [hs EXCEPT
                     !.phase = "returned",
                     !.searched = [i \in 1..Len(ToSearch(hs.indices, hs.target_index)) |->
                                     ToSearch(hs.indices, hs.target_index)[i].name],
                     !.result = handle_search(hs.indices, hs.query, hs.top_k,
                                              hs.threshold, hs.scope, hs.target_index,
                                              hs.hybrid)]
    /\ UNCHANGED daemon_vars
    /\ UNCHANGED <<cl, fn>>

\* one call of the client's search_indexed_files
SearchIndexedFilesCall ==
    /\ hs.lphase = "call"
    /\ hs' = [hs EXCEPT
                !.lphase = "returned",
                !.local = search_indexed_files(hs.files, hs.query, hs.labels, hs.top_k,
                                               hs.threshold, hs.scope, hs.hybrid)]
    /\ UNCHANGED daemon_vars
    /\ UNCHANGED <<cl, fn>>

HsNext == HandleSearchCall \/ SearchIndexedFilesCall

SpecSearch == HsInit /\ [][HsNext]_vars

(***************************************************************************)
(* Properties of handle_search.                                            *)
(***************************************************************************)
HsLoaded == DictKeys(hs.indices)
HsSearched == {hs.searched[i] : i \in 1..Len(hs.searched)}
HsResultPaths == {hs.result[i].path : i \in 1..Len(hs.result)}

\* the paths of the indices named `names` that pass the threshold and the scope
HsHitPaths(names) ==
    LET qv == Encode(hs.query)
        words == IF hs.hybrid THEN split(lower(hs.query)) ELSE <<>>
        Eff(e, i) ==
            LET sc == cosine_similarity(qv, e.vectors)[i]
            IN IF hs.hybrid THEN Min(100, sc + hybrid_boost(e.paths[i], words)) ELSE sc
    IN UNION {{hs.indices[k].paths[i] :
                 i \in {j \in 1..Len(hs.indices[k].paths) :
                          /\ Eff(hs.indices[k], j) >= hs.threshold
                          /\ (hs.scope = <<>>
                              \/ Contains(lower(hs.scope), lower(hs.indices[k].paths[j])))}}
              : k \in {n \in 1..Len(hs.indices) : hs.indices[n].name \in names}}

\* the result holds paths that hit in the indices named, as many of them as
\* top_k allows
HsResultFrom(names) ==
    /\ HsResultPaths \subseteq HsHitPaths(names)
    /\ Len(hs.result) = Min(hs.top_k, Cardinality(HsHitPaths(names)))

\* C8 (as amended): with no index field, or one that is "all" whatever its
\* case, every loaded index is searched, also when an index of that very name
\* is loaded; with the name of a loaded index that is not "all" in any case,
\* only that index is searched and every result carries its name.
C8_Selection ==
    hs.phase = "returned" =>
        /\ ((hs.target_index = NoIndex \/ NameLower(hs.target_index) = "all") =>
                (HsSearched = HsLoaded /\ HsResultFrom(HsLoaded)))
        /\ ((hs.target_index \in HsLoaded /\ NameLower(hs.target_index) /= "all") =>
                (/\ hs.searched = <<hs.target_index>>
                 /\ \A i \in 1..Len(hs.result) : hs.result[i].index = hs.target_index
                 /\ HsResultFrom({hs.target_index})))

\* C8 as claimed: absent or equal to "all" searches everything; any other name
\* of a loaded index restricts the search to it.
C8_AsClaimed ==
    hs.phase = "returned" =>
        /\ ((hs.target_index = NoIndex \/ hs.target_index = "all") =>
                HsSearched = HsLoaded)
        /\ ((hs.target_index \in HsLoaded /\ hs.target_index /= "all") =>
                (/\ hs.searched = <<hs.target_index>>
                 /\ \A i \in 1..Len(hs.result) : hs.result[i].index = hs.target_index))

\* index "a" was requested, other indices are loaded and would have hit too
C8_Witness ==
    /\ hs.phase = "returned"
    /\ hs.target_index = "a"
    /\ {"a", "vault", "ALL"} \subseteq HsLoaded
    /\ hs.result /= <<>>
    /\ HsHitPaths(HsLoaded) /= HsHitPaths({"a"})

HsUnknownTarget ==
    /\ Truthy(hs.target_index)
    /\ NameLower(hs.target_index) /= "all"
    /\ hs.target_index \notin HsLoaded

\* C9 (as amended): a name that is not loaded is treated as no name at all:
\* every loaded index is searched and the result holds the paths that hit, as
\* many as top_k allows.
C9_UnknownSearchesAll ==
    (hs.phase = "returned" /\ HsUnknownTarget) =>
        (HsSearched = HsLoaded /\ HsResultFrom(HsLoaded))

\* C9 as claimed: a name that is not loaded selects nothing, the result is empty.
C9_AsClaimed ==
    (hs.phase = "returned" /\ HsUnknownTarget) =>
        (hs.searched = <<>> /\ hs.result = <<>>)

\* index "b" is not loaded and the search returns results of loaded indices
C9_Witness ==
    /\ hs.phase = "returned"
    /\ hs.target_index = "b"
    /\ HsLoaded /= {}
    /\ hs.result /= <<>>

\* the file of an index can be read: it exists and np.load succeeds on it
Readable(f, n) == Loadable(f, n) /\ (n = "vault" \/ f.store)

HsLabels == {hs.labels[i] : i \in 1..Len(hs.labels)}
HsLocalPaths == {hs.local[i].path : i \in 1..Len(hs.local)}

\* the paths of the readable files among `names` that pass the threshold and
\* the scope
FileHitPaths(names) ==
    LET qv == Encode(hs.query)
        words == IF hs.hybrid THEN split(lower(hs.query)) ELSE <<>>
        Rows(file) == 1..Min(Len(file.paths), Len(file.vectors))
        Eff(file, i) ==
            LET sc == cosine_similarity(qv, file.vectors)[i]
            IN IF hs.hybrid THEN Min(100, sc + hybrid_boost(file.paths[i], words)) ELSE sc
    IN UNION {{hs.files.files[n].paths[i] :
                 i \in {j \in Rows(hs.files.files[n]) :
                          /\ Eff(hs.files.files[n], j) >= hs.threshold
                          /\ (hs.scope = <<>>
                              \/ Contains(lower(hs.scope),
                                          lower(hs.files.files[n].paths[j])))}}
              : n \in {m \in names : Readable(hs.files, m)}}

\* C17: a file that is missing or that np.load cannot read is passed over and
\* nothing else is lost: whatever the order of the listing, the daemon's
\* mapping holds exactly the readable files, with their arrays, and the
\* client's local search returns the hits of every readable file of its
\* candidate list, as many as top_k allows.
C17_BadFileSkipped ==
    /\ DictKeys(hs.indices) = {n \in FileNames : Readable(hs.files, n)}
    /\ \A n \in DictKeys(hs.indices) :
          /\ DictGet(hs.indices, n).paths = hs.files.files[n].paths
          /\ DictGet(hs.indices, n).vectors = hs.files.files[n].vectors
    /\ (hs.lphase = "returned" =>
          (/\ HsLocalPaths \subseteq FileHitPaths(HsLabels)
           /\ Len(hs.local) = Min(hs.top_k, Cardinality(FileHitPaths(HsLabels)))))

\* the unreadable file is listed first, the readable one after it is loaded by
\* the daemon and its hit is returned by the local search
C17_Witness ==
    /\ hs.lphase = "returned"
    /\ hs.files.files["a"].kind = "corrupt"
    /\ hs.files.files["vault"].kind = "absent"
    /\ hs.order = <<"a", "ALL">>
    /\ hs.labels = <<"vault", "a", "ALL">>
    /\ DictKeys(hs.indices) = {"ALL"}
    /\ \E i \in 1..Len(hs.local) : hs.local[i].index = "ALL"

\* every row of one index as (path, effective score), before any filter
EntryRows(e) ==
    LET qv == Encode(hs.query)
        words == IF hs.hybrid THEN split(lower(hs.query)) ELSE <<>>
        Eff(i) == LET sc == cosine_similarity(qv, e.vectors)[i]
                  IN IF hs.hybrid THEN Min(100, sc + hybrid_boost(e.paths[i], words))
                     ELSE sc
    IN {[path |-> e.paths[i], score |-> Eff(i)] :
          i \in 1..Min(Len(e.paths), Len(e.vectors))}

\* scope occurs in path when the case of letters is ignored
ScopeMatches(scope, path) ==
    \E o \in 0..(Len(path) - Len(scope)) :
        \A k \in 1..Len(scope) : LowerChar(scope[k]) = LowerChar(path[o + k])

\* the rows a search may return: at or above the threshold, within the scope
Hits(entries) ==
    {h \in UNION {EntryRows(e) : e \in entries} :
        h.score >= hs.threshold /\ (hs.scope = <<>> \/ ScopeMatches(hs.scope, h.path))}

\* the indices the daemon searched and the files the local search read
DaemonEntries == {DictGet(hs.indices, n) : n \in HsSearched}
ClientEntries == {hs.files.files[n] : n \in {m \in HsLabels : Readable(hs.files, m)}}

Filtered(rs, Entry(_)) ==
    \A i \in 1..Len(rs) :
        /\ [path |-> rs[i].path, score |-> rs[i].score] \in EntryRows(Entry(rs[i].index))
        /\ rs[i].score >= hs.threshold
        /\ (hs.scope /= <<>> => ScopeMatches(hs.scope, rs[i].path))

Descending(rs) ==
    \A i \in 1..Len(rs) : \A j \in 1..Len(rs) : (i < j => rs[i].score >= rs[j].score)

DaemonEntry(n) == DictGet(hs.indices, n)
ClientEntry(n) == hs.files.files[n]

\* C18: every row returned by handle_search and by search_indexed_files is a
\* row of the index it names, its effective score is at or above the
\* threshold, its path contains the scope (when one is given) ignoring case,
\* and the rows come in descending order of score.
C18_FilteredAndSorted ==
    /\ (hs.phase = "returned" =>
          (Filtered(hs.result, DaemonEntry) /\ Descending(hs.result)))
    /\ (hs.lphase = "returned" =>
          (Filtered(hs.local, ClientEntry) /\ Descending(hs.local)))

\* scope "n/" matched "n/p.md" and, ignoring case, "N/r"; both searches return
\* the two rows, the higher score first
C18_Witness ==
    /\ hs.phase = "returned"
    /\ hs.lphase = "returned"
    /\ hs.scope = <<"n", "/">>
    /\ Len(hs.result) = 2
    /\ hs.result[1].path = P_PLAN
    /\ hs.result[2].path = P_R
    /\ hs.result[1].score > hs.result[2].score
    /\ hs.local = hs.result

DedupedTopK(rs, hits) ==
    /\ \A i \in 1..Len(rs) : \A j \in 1..Len(rs) : (i /= j => rs[i].path /= rs[j].path)
    /\ Len(rs) <= hs.top_k
    /\ Len(rs) = Min(hs.top_k, Cardinality({h.path : h \in hits}))
    /\ \A i \in 1..Len(rs) :
          /\ [path |-> rs[i].path, score |-> rs[i].score] \in hits
          /\ \A h \in hits : (h.path = rs[i].path => h.score <= rs[i].score)
    /\ \A h \in hits :
          (h.path \notin {rs[i].path : i \in 1..Len(rs)}) =>
              (\A i \in 1..Len(rs) : rs[i].score >= h.score)

\* C19: for a positive top_k, the list returned by handle_search and by
\* search_indexed_files holds each path at most once, with the highest score
\* the path has among the rows that hit in the indices searched; it holds
\* min(top_k, number of distinct paths that hit) entries, and no path left
\* out scores higher than one that is returned.
C19_DedupeTopK ==
    /\ (hs.phase = "returned" => DedupedTopK(hs.result, Hits(DaemonEntries)))
    /\ (hs.lphase = "returned" => DedupedTopK(hs.local, Hits(ClientEntries)))

\* "n/p.md" hits in two indices with different scores and a third row hits
\* too; with top_k = 1 only the better occurrence of "n/p.md" is returned
C19_Witness ==
    /\ hs.phase = "returned"
    /\ hs.lphase = "returned"
    /\ hs.top_k = 1
    /\ Cardinality({h \in Hits(DaemonEntries) : h.path = P_PLAN}) = 2
    /\ Cardinality({h.path : h \in Hits(DaemonEntries)}) >= 2
    /\ Len(hs.result) = 1
    /\ hs.result[1].path = P_PLAN
    /\ hs.local = hs.result

(***************************************************************************)
(* client.try_daemon_search: one call.  What the peer does is the          *)
(* environment: each _send_daemon_request ends in a parsed reply or in one *)
(* of its exceptions, each start_daemon in a spawn or a refusal.           *)
(***************************************************************************)
\* a fourth delay is appended to the loop
RETRY_DELAYS_Four == <<500, 1000, 2000, 4000>>

\* the delays of the retry loop, in milliseconds
RETRY_DELAYS == <<500, 1000, 2000>>

\* how one _send_daemon_request can end
SendOutcomes == {"reply", "refused", "timeout", "oserror", "bad_reply"}

\* what json.loads returns for a reply that parses
ParsedReplies == {"hits", "empty_list", "error_object"}

\* how one start_daemon can end
StartOutcomes == {"not_a_directory", "no_daemon_script", "popen_failed", "spawned"}

\* vault_path: None, the empty string, a path
VaultPaths == {"<None>", "", "/vault"}

NoResult == "<None>"

\* the exceptions the first except clause catches: daemon not running
\* (ConnectionRefusedError, TimeoutError, OSError)
ConnectionFailure_All(o) == o \in {"refused", "timeout", "oserror", "bad_reply"}

ConnectionFailure(o) == o \in {"refused", "timeout", "oserror"}

\* the exceptions of the second except clause (json.JSONDecodeError, ValueError)
ProtocolFailure(o) == o = "bad_reply"

ClInit ==
    /\ cl \in [pc : {"first"}, auto_start : BOOLEAN, vault_path : VaultPaths,
               outcomes : {<<>>}, start_calls : {0}, spawned : {0},
               slept : {<<>>}, result : {NoResult}]
    /\ hs = NoCall
    /\ fn = NoCall
    /\ running = TRUE
    /\ indices = <<>>
    /\ pc = "loop"
    /\ conns = <<>>
    /\ served = 0
    /\ data = NoData
    /\ results = <<>>
    /\ new_indices = <<>>
    /\ todo = <<>>
    /\ model_calls = 0
    /\ fs = [store |-> FALSE, files |-> [n \in FileNames |-> Absent]]
    /\ fs_ops = 0

\* return _send_daemon_request(request), in the first try
ClFirst ==
    /\ cl.pc = "first"
    /\ \E o \in SendOutcomes : \E r \in ParsedReplies :
          cl' = [cl EXCEPT
                   !.outcomes = Append(@, o),
                   !.result = IF o = "reply" THEN r ELSE NoResult,
                   !.pc = IF o = "reply" THEN "done"
                          ELSE IF ConnectionFailure(o) THEN "check"
                          ELSE "done"]
    /\ UNCHANGED daemon_vars
    /\ UNCHANGED <<hs, fn>>

\* the test of auto_start and vault_path is dropped
ClCheck_Always ==
    /\ cl.pc = "check"
    /\ cl' = [cl EXCEPT !.pc = "start"]
    /\ UNCHANGED daemon_vars
    /\ UNCHANGED <<hs, fn>>

\* if not (auto_start and vault_path): return None
ClCheck ==
    /\ cl.pc = "check"
    /\ cl' = [cl EXCEPT
                !.pc = IF cl.auto_start /\ cl.vault_path \notin {"<None>", ""}
                       THEN "start" ELSE "done"]
    /\ UNCHANGED daemon_vars
    /\ UNCHANGED <<hs, fn>>

\* if not start_daemon(vault_path): return None
ClStart ==
    /\ cl.pc = "start"
    /\ \E o \in StartOutcomes :
          cl' = [cl EXCEPT
                   !.start_calls = @ + 1,
                   !.spawned = IF o = "spawned" THEN @ + 1 ELSE @,
                   !.pc = IF o = "spawned" THEN "sleep" ELSE "done"]
    /\ UNCHANGED daemon_vars
    /\ UNCHANGED <<hs, fn>>

\* time.sleep(delay), for the next delay of the loop
ClSleep ==
    /\ cl.pc = "sleep"
    /\ cl' = [cl EXCEPT
                !.slept = Append(@, RETRY_DELAYS[Len(cl.slept) + 1]),
                !.pc = "retry"]
    /\ UNCHANGED daemon_vars
    /\ UNCHANGED <<hs, fn>>

\* result = _send_daemon_request(request, timeout=1.0), in the loop; after the
\* last delay the loop ends and None is returned
ClRetry ==
    /\ cl.pc = "retry"
    /\ \E o \in SendOutcomes : \E r \in ParsedReplies :
          cl' = [cl EXCEPT
                   !.outcomes = Append(@, o),
                   !.result = IF o = "reply" THEN r ELSE NoResult,
                   !.pc = IF o = "reply" THEN "done"
                          ELSE IF ConnectionFailure(o)
                               THEN (IF Len(cl.slept) < Len(RETRY_DELAYS)
                                     THEN "sleep" ELSE "done")
                               ELSE "done"]
    /\ UNCHANGED daemon_vars
    /\ UNCHANGED <<hs, fn>>

ClNext == ClFirst \/ ClCheck \/ ClStart \/ ClSleep \/ ClRetry

SpecClient == ClInit /\ [][ClNext]_vars

(***************************************************************************)
(* Properties of try_daemon_search.                                        *)
(***************************************************************************)
ClSent == Len(cl.outcomes)

C11_SpawnOnlyWhenAllowed ==
    /\ cl.spawned <= 1
    /\ cl.start_calls <= 1
    /\ (cl.start_calls >= 1 =>
          (/\ ClSent >= 1
           /\ ConnectionFailure(cl.outcomes[1])
           /\ cl.auto_start
           /\ cl.vault_path \notin {"<None>", ""}))
    /\ ((~cl.auto_start \/ cl.vault_path \in {"<None>", ""}) =>
          (/\ cl.start_calls = 0
           /\ cl.spawned = 0
           /\ cl.slept = <<>>
           /\ ClSent <= 1))

\* the first request was refused and the call ended without a spawn, because
\* auto-start is disabled although a vault path is known
C11_Witness ==
    /\ cl.pc = "done"
    /\ ClSent = 1
    /\ cl.outcomes[1] = "refused"
    /\ ~cl.auto_start
    /\ cl.vault_path = "/vault"
    /\ cl.spawned = 0

\* C12: requests after the first are sent only after a spawn, each after its
\* delay, the delays being 0.5s, 1.0s, 2.0s in that order; at most three
\* retries, so at most four requests; a request that gets a parsable reply is
\* the last one sent and its reply is the result; three retries that all fail
\* at connection level end the call with no result.
C12_RetrySchedule ==
    /\ ClSent <= 4
    /\ Len(cl.slept) <= 3
    /\ cl.slept = SubSeq(<<500, 1000, 2000>>, 1, Len(cl.slept))
    /\ (cl.slept /= <<>> => cl.spawned = 1)
    /\ (ClSent >= 1 =>
          ClSent - 1 = (IF cl.pc = "retry" THEN Len(cl.slept) - 1 ELSE Len(cl.slept)))
    /\ \A i \in 1..ClSent :
          (cl.outcomes[i] = "reply") =>
              (i = ClSent /\ cl.pc = "done" /\ cl.result \in ParsedReplies)
    /\ ((cl.pc = "done" /\ ClSent = 4
         /\ \A i \in 2..4 : ConnectionFailure(cl.outcomes[i])) =>
          cl.result = NoResult)

\* two retries failed at connection level, the third got a reply: it is returned
C12_Witness ==
    /\ cl.pc = "done"
    /\ cl.slept = <<500, 1000, 2000>>
    /\ cl.outcomes = <<"refused", "refused", "timeout", "reply">>
    /\ cl.result = "hits"

(***************************************************************************)
(* The main block of client.py for a query: the candidate index list, the  *)
(* call of try_daemon_search, the local search, the ad-hoc directory       *)
(* search, the printed value.                                              *)
(***************************************************************************)
\* the values main's variable `results` takes: None, a list, a JSON object
NoneValue == [kind |-> "none", rows |-> <<>>]
ListValue(rows) == [kind |-> "list", rows |-> rows]
ErrorObject == [kind |-> "object", rows |-> <<>>]

\* a non-empty result array of the daemon
DaemonHits == <<[path |-> P_R, score |-> 90, index |-> "vault"]>>

\* what try_daemon_search returns, as a value
FromReply(r) ==
    CASE r = "hits" -> ListValue(DaemonHits)
      [] r = "empty_list" -> ListValue(<<>>)
      [] r = "error_object" -> ErrorObject
      [] OTHER -> NoneValue

\* not results
Falsy(v) == v.kind = "none" \/ (v.kind = "list" /\ v.rows = <<>>)

\* the files the client finds: the vault cache, the store, and in the store
\* the cache of an earlier ad-hoc scan of the scope directory
CascadeNames == FileNames \cup {AUTOSCAN}
CascadeFiles(v, a, l, c) ==
    [n \in CascadeNames |->
        CASE n = "vault" -> v [] n = "a" -> a [] n = "ALL" -> l [] OTHER -> c]
CascadeFs ==
    {[store |-> FALSE, files |-> CascadeFiles(Absent, Absent, Absent, Absent)],
     [store |-> TRUE, files |-> CascadeFiles(Absent, Absent, Absent, Absent)],
     [store |-> TRUE, files |-> CascadeFiles(V1, A1, Absent, Absent)],
     [store |-> TRUE, files |-> CascadeFiles(Absent, Corrupt, L1, Absent)],
     [store |-> TRUE, files |-> CascadeFiles(V1, Absent, Absent, DirCache(DIR_ONE))]}

\* os.listdir of the store, filtered to *.npz: the files present, in any order
CascadeListed(f) == {n \in CascadeNames \ {"vault"} : f.files[n].kind /= "absent"}

CascadeIndexArgs == {NoIndex, "all", "vault", "b"}
CascadeScopes == {<<>>, <<"n", "/">>}
CascadeQueries == {<<"p">>, <<"q">>}

MainInit ==
    /\ fs \in CascadeFs
    /\ \E order \in Perms(CascadeListed(fs)) :
       \E ix \in CascadeIndexArgs :
          cl \in [pc : {"first"}, auto_start : {TRUE}, vault_path : {"/vault"},
                  outcomes : {<<>>}, start_calls : {0}, spawned : {0},
                  slept : {<<>>}, result : {NoResult},
                  query : CascadeQueries, index : {ix}, scope : CascadeScopes,
                  scope_isdir : BOOLEAN, dir : {DIR_EMPTY, DIR_ONE},
                  indices : {BuildIndices(fs, order, ix)},
                  results : {NoneValue}, local_calls : {0},
                  local_results : {<<>>}, adhoc_calls : {0},
                  before_adhoc : {NoneValue}, output : {NoneValue}]
    /\ (cl.scope = <<>> => (~cl.scope_isdir /\ cl.dir = DIR_EMPTY))
    /\ (~cl.scope_isdir => cl.dir = DIR_EMPTY)
    /\ hs = NoCall
    /\ fn = NoCall
    /\ running = TRUE
    /\ indices = <<>>
    /\ pc = "loop"
    /\ conns = <<>>
    /\ served = 0
    /\ data = NoData
    /\ results = <<>>
    /\ new_indices = <<>>
    /\ todo = <<>>
    /\ model_calls = 0
    /\ fs_ops = 0

\* the local search is run whatever the daemon returned
MainLocal_Always ==
    /\ cl.pc = "done"
    /\ LET r == FromReply(cl.result)
           local_results == search_indexed_files(fs, cl.query, cl.indices, DEFAULT_TOP_K,
                                                 DEFAULT_THRESHOLD, cl.scope, TRUE)
       IN cl' = [cl EXCEPT
                   !.pc = "adhoc_test",
                   !.local_calls = @ + 1,
                   !.local_results = local_results,
                   !.results = IF local_results /= <<>> THEN ListValue(local_results)
                               ELSE r]
    /\ UNCHANGED daemon_vars
    /\ UNCHANGED <<hs, fn>>

\* results = try_daemon_search(...) has returned;
\* if results is None or (results == [] and indices): the local search, whose
\* result is taken when it is not empty
MainLocal ==
    /\ cl.pc = "done"
    /\ LET r == FromReply(cl.result)
           local_results == search_indexed_files(fs, cl.query, cl.indices, DEFAULT_TOP_K,
                                                 DEFAULT_THRESHOLD, cl.scope, TRUE)
       IN IF r.kind = "none" \/ (r = ListValue(<<>>) /\ cl.indices /= <<>>)
          THEN cl' = [cl EXCEPT
                        !.pc = "adhoc_test",
                        !.local_calls = @ + 1,
                        !.local_results = local_results,
                        !.results = IF local_results /= <<>>
                                    THEN ListValue(local_results) ELSE r]
          ELSE cl' = [cl EXCEPT !.pc = "adhoc_test", !.results = r]
    /\ UNCHANGED daemon_vars
    /\ UNCHANGED <<hs, fn>>

\* if not results and args.scope and os.path.isdir(args.scope): the ad-hoc
\* search of the directory, which may write its cache into the store
MainAdhoc ==
    /\ cl.pc = "adhoc_test"
    /\ IF Falsy(cl.results) /\ cl.scope /= <<>> /\ cl.scope_isdir
       THEN LET call == search_unindexed_directory(cl.dir, fs.files[AUTOSCAN], cl.query,
                                                   DEFAULT_TOP_K, DEFAULT_THRESHOLD)
            IN /\ cl' = [cl EXCEPT
                           !.pc = "print",
                           !.adhoc_calls = @ + 1,
                           !.before_adhoc = cl.results,
                           !.results = ListValue(call.result)]
               /\ fs' = [store |-> (fs.store \/ call.branch = "scanned"),
                         files |-> [fs.files EXCEPT ![AUTOSCAN] = call.cache]]
       ELSE /\ cl' = [cl EXCEPT !.pc = "print"]
            /\ fs' = fs
    /\ UNCHANGED <<running, indices, pc, conns, served, data, results, new_indices,
                   todo, model_calls, fs_ops, hs, fn>>

\* print(json.dumps(results, indent=2))
MainPrint ==
    /\ cl.pc = "print"
    /\ cl' = [cl EXCEPT !.pc = "exit", !.output = cl.results]
    /\ UNCHANGED daemon_vars
    /\ UNCHANGED <<hs, fn>>

MainNext == ClNext \/ MainLocal \/ MainAdhoc \/ MainPrint

SpecCascade == MainInit /\ [][MainNext]_vars

(***************************************************************************)
(* Properties of the cascade.                                              *)
(***************************************************************************)
PastLocal == cl.pc \in {"adhoc_test", "print", "exit"}

\* C13: the local search runs exactly when try_daemon_search returned None, or
\* an empty array while the candidate index list is not empty, and at most
\* once; a non-empty array of the daemon is the printed value and no local
\* search is made; after the local search the result is the local one when
\* that is not empty, and what the daemon path returned otherwise.
C13_LocalFallback ==
    LET r == FromReply(cl.result) IN
    /\ cl.local_calls <= 1
    /\ (~PastLocal => cl.local_calls = 0)
    /\ (PastLocal =>
          (cl.local_calls = 1 <=>
              (r.kind = "none" \/ (r = ListValue(<<>>) /\ cl.indices /= <<>>))))
    /\ ((PastLocal /\ r.kind = "list" /\ r.rows /= <<>>) =>
          (/\ cl.local_calls = 0
           /\ cl.results = r
           /\ (cl.pc = "exit" => cl.output = r)))
    /\ (cl.pc = "adhoc_test" =>
          cl.results = (IF cl.local_calls = 1 /\ cl.local_results /= <<>>
                        THEN ListValue(cl.local_results) ELSE r))

\* the daemon returned an empty array, the local search found hits and they
\* are printed
C13_Witness ==
    /\ cl.pc = "exit"
    /\ cl.result = "empty_list"
    /\ cl.local_calls = 1
    /\ cl.local_results /= <<>>
    /\ cl.output = ListValue(cl.local_results)

\* C14: the ad-hoc directory search runs at most once, only after the daemon
\* path and the local search have both been tried and left the result empty
\* or absent, and only when the scope is given and is an existing directory;
\* it does not run when the daemon or the local search returned a non-empty
\* list.
C14_AdhocLast ==
    /\ cl.adhoc_calls <= 1
    /\ (cl.adhoc_calls = 1 =>
          (/\ cl.pc \in {"print", "exit"}
           /\ ClSent >= 1
           /\ cl.local_calls = 1
           /\ cl.local_results = <<>>
           /\ Falsy(cl.before_adhoc)
           /\ Falsy(FromReply(cl.result))
           /\ cl.scope /= <<>>
           /\ cl.scope_isdir))
    /\ ((cl.result = "hits" \/ cl.local_results /= <<>>) => cl.adhoc_calls = 0)

\* daemon and local search gave nothing, the scope is a directory: the ad-hoc
\* search ran and its hits are printed
C14_Witness ==
    /\ cl.pc = "exit"
    /\ cl.result = "empty_list"
    /\ cl.local_calls = 1
    /\ cl.adhoc_calls = 1
    /\ cl.output.kind = "list"
    /\ cl.output.rows /= <<>>

\* C15: no daemon answers and none is started, no index file exists and the
\* scope is not an existing directory: the printed value is the empty list.
C15_EmptyResultSet ==
    (/\ cl.pc = "exit"
     /\ \A i \in 1..ClSent : cl.outcomes[i] = "refused"
     /\ cl.spawned = 0
     /\ \A n \in CascadeNames : fs.files[n].kind = "absent"
     /\ ~(cl.scope /= <<>> /\ cl.scope_isdir))
        => cl.output = ListValue(<<>>)

(***************************************************************************)
(* client.search_unindexed_directory called on one directory, once and     *)
(* again: the first call may find the cache of an earlier scan, and a scan *)
(* leaves its cache for the next call.                                     *)
(***************************************************************************)
AdhocCaches == {Absent, Corrupt} \cup {DirCache(d) : d \in Dirs \ {DIR_EMPTY}}

AdhocInit ==
    /\ \E c \in AdhocCaches :
          fs = [store |-> (c.kind /= "absent"),
                files |-> CascadeFiles(Absent, Absent, Absent, c)]
    /\ cl \in [pc : {"call"}, dir : Dirs, query : HsQueries, top_k : HsTopKs,
               threshold : HsThresholds, calls : {0}, branch : {"none"},
               used : {Absent}, result : {<<>>}]
    /\ hs = NoCall
    /\ fn = NoCall
    /\ running = TRUE
    /\ indices = <<>>
    /\ pc = "loop"
    /\ conns = <<>>
    /\ served = 0
    /\ data = NoData
    /\ results = <<>>
    /\ new_indices = <<>>
    /\ todo = <<>>
    /\ model_calls = 0
    /\ fs_ops = 0

\* one call; used: the arrays that were scored, those of the cache or those
\* of the scan
AdhocCall ==
    /\ cl.pc = "call"
    /\ LET call == search_unindexed_directory(cl.dir, fs.files[AUTOSCAN], cl.query,
                                              cl.top_k, cl.threshold)
       IN /\ cl' = [cl EXCEPT
                      !.pc = "done",
                      !.calls = @ + 1,
                      !.branch = call.branch,
                      !.used = IF call.branch = "cached" THEN fs.files[AUTOSCAN]
                               ELSE DirCache(cl.dir),
                      !.result = call.result]
          /\ fs' = [store |-> (fs.store \/ call.branch = "scanned"),
                    files |-> [fs.files EXCEPT ![AUTOSCAN] = call.cache]]
    /\ UNCHANGED <<running, indices, pc, conns, served, data, results, new_indices,
                   todo, model_calls, fs_ops, hs, fn>>

\* the same search is made again
AdhocAgain ==
    /\ cl.pc = "done"
    /\ cl.calls < MaxAdhocCalls
    /\ cl' = [cl EXCEPT !.pc = "call"]
    /\ UNCHANGED daemon_vars
    /\ UNCHANGED <<hs, fn>>

AdhocNext == AdhocCall \/ AdhocAgain

SpecAdhoc == AdhocInit /\ [][AdhocNext]_vars

\* the scores of the chunks of file `path` among the arrays that were scored
ChunkScores(path) ==
    {cosine_similarity(Encode(cl.query), cl.used.vectors)[j] :
        j \in {k \in 1..Len(cl.used.paths) : cl.used.paths[k] = path}}

\* C20: in whichever branch, the list returned holds each file path at most
\* once, with the score of the highest-scoring chunk of that file.
C20_OnePerFile ==
    cl.pc = "done" =>
        /\ \A i \in 1..Len(cl.result) : \A j \in 1..Len(cl.result) :
              (i /= j => cl.result[i].path /= cl.result[j].path)
        /\ \A i \in 1..Len(cl.result) :
              \A sc \in ChunkScores(cl.result[i].path) : sc <= cl.result[i].score

(***************************************************************************)
(* chunk_text (shared.py): one call, one action per iteration of its loop. *)
(* Offsets are Python's, counted from 0; text is a sequence of characters. *)
(***************************************************************************)
MaxTextLen == 6
MaxChunkSize == 4
\* the loop is followed until the list holds more chunks than a scan that
\* advances by one character per iteration could produce
MaxChunks == MaxTextLen + 2

ChunkChars == {"a", " ", "\n"}
ChunkTexts == UNION {[1..n -> ChunkChars] : n \in 0..MaxTextLen}

\* how a slice or a search window reads an offset: a negative one counts
\* from the end, and the outcome is clamped to 0..n
PyIndex(i, n) == IF i < 0 THEN Max(i + n, 0) ELSE Min(i, n)

\* text[lo:hi]
PySlice(text, lo, hi) ==
    SubSeq(text, PyIndex(lo, Len(text)) + 1, PyIndex(hi, Len(text)))

\* str.strip(): without the leading and trailing whitespace
RECURSIVE strip(_)
strip(s) ==
    IF s = <<>> THEN s
    ELSE IF IsSpace(s[1]) THEN strip(Tail(s))
    ELSE IF IsSpace(s[Len(s)]) THEN strip(SubSeq(s, 1, Len(s) - 1))
    ELSE s

\* text.rfind('\n\n', lo, hi): the highest offset of a paragraph break that
\* lies wholly inside text[lo:hi], or -1
rfind_break(text, lo, hi) ==
    LET found == {i \in PyIndex(lo, Len(text))..(PyIndex(hi, Len(text)) - 2) :
                     text[i + 1] = "\n" /\ text[i + 2] = "\n"}
    IN IF found = {} THEN -1 ELSE CHOOSE i \in found : \A j \in found : j <= i

\* where the chunk of the iteration that begins at `start` ends
ChunkEnd(text, start, chunk_size) ==
    LET end == Min(start + chunk_size, Len(text))
        break_at == rfind_break(text, start + (chunk_size \div 2), end)
    IN IF end < Len(text) /\ break_at > start THEN break_at ELSE end

NextStart_NoOverlap(end, overlap) == end

\* start = end - overlap
NextStart(end, overlap) == end - overlap

\* no daemon, no client and no persisted file take part in a helper's call
NoProcess ==
    /\ hs = NoCall
    /\ cl = NoCall
    /\ running = TRUE
    /\ indices = <<>>
    /\ pc = "loop"
    /\ conns = <<>>
    /\ served = 0
    /\ data = NoData
    /\ results = <<>>
    /\ new_indices = <<>>
    /\ todo = <<>>
    /\ model_calls = 0
    /\ fs = [store |-> FALSE, files |-> [n \in FileNames |-> Absent]]
    /\ fs_ops = 0

ChunkInit ==
    /\ NoProcess
    /\ fn \in [pc : {"call"}, text : ChunkTexts, chunk_size : 1..MaxChunkSize,
               overlap : 0..(MaxChunkSize - 1), start : {0}, chunks : {<<>>},
               value : {<<>>}]
    /\ fn.overlap < fn.chunk_size

\* the early return for a short text, or the locals before the loop
ChunkEntry ==
    /\ fn.pc = "call"
    /\ fn' = IF Len(fn.text) <= fn.chunk_size
             THEN [fn EXCEPT !.pc = "done", !.value = <<fn.text>>]
             ELSE [fn EXCEPT !.pc = "loop"]
    /\ UNCHANGED daemon_vars
    /\ UNCHANGED <<hs, cl>>

\* one iteration of `while start < text_len`; a chunk is kept with the
\* offsets start and end it was cut at
ChunkIter ==
    /\ fn.pc = "loop"
    /\ Len(fn.chunks) < MaxChunks
    /\ LET end == ChunkEnd(fn.text, fn.start, fn.chunk_size)
           chunk == strip(PySlice(fn.text, fn.start, end))
           chunks == IF chunk /= <<>>
                     THEN Append(fn.chunks, [start |-> fn.start, end |-> end,
                                             text |-> chunk])
                     ELSE fn.chunks
       IN fn' = IF fn.start >= Len(fn.text)
                THEN [fn EXCEPT !.pc = "ret"]
                ELSE IF end >= Len(fn.text)
                THEN [fn EXCEPT !.pc = "ret", !.chunks = chunks]
                ELSE [fn EXCEPT !.chunks = chunks,
                                !.start = NextStart(end, fn.overlap)]
    /\ UNCHANGED daemon_vars
    /\ UNCHANGED <<hs, cl>>

\* return chunks if chunks else [text]
ChunkReturn ==
    /\ fn.pc = "ret"
    /\ fn' = [fn EXCEPT !.pc = "done",
                        !.value = IF fn.chunks /= <<>>
                                  THEN [i \in 1..Len(fn.chunks) |-> fn.chunks[i].text]
                                  ELSE <<fn.text>>]
    /\ UNCHANGED daemon_vars
    /\ UNCHANGED <<hs, cl>>

ChunkNext == ChunkEntry \/ ChunkIter \/ ChunkReturn

SpecChunk == ChunkInit /\ [][ChunkNext]_vars

\* C21: for a non-empty text and 0 <= overlap < chunk_size, the scan position
\* start strictly increases from one iteration to the next and never becomes
\* negative, so that the loop of chunk_text ends.
C21_StartIncreases ==
    [][(fn.pc = "loop" /\ fn'.pc = "loop" /\ fn.text /= <<>>
        /\ 0 <= fn.overlap /\ fn.overlap < fn.chunk_size)
          => (fn'.start > fn.start /\ fn'.start >= 0)]_vars

\* the list of chunks outgrew every scan that advances: the loop goes on
\* although overlap < chunk_size
C21_LoopGoesOn ==
    /\ fn.pc = "loop"
    /\ Len(fn.chunks) = MaxChunks
    /\ fn.overlap < fn.chunk_size

\* the text holds neither a paragraph break nor any other whitespace
NoWhitespace(text) == \A i \in 1..Len(text) : ~IsSpace(text[i])

\* the offsets a kept chunk covers
Covered(c) == c.start..(c.end - 1)

\* C22: for a text longer than chunk_size without paragraph break and without
\* whitespace, the chunks' start offsets strictly increase, each chunk is at
\* most chunk_size long, two consecutive chunks share exactly overlap
\* characters and, once the call returned, the chunks cover every character.
C22_Chunks ==
    (fn.pc \in {"loop", "ret", "done"} /\ Len(fn.text) > fn.chunk_size
     /\ NoWhitespace(fn.text)) =>
        /\ \A i \in 1..Len(fn.chunks) :
              /\ fn.chunks[i].text = PySlice(fn.text, fn.chunks[i].start, fn.chunks[i].end)
              /\ Len(fn.chunks[i].text) <= fn.chunk_size
              /\ Len(fn.chunks[i].text) = fn.chunks[i].end - fn.chunks[i].start
        /\ \A i \in 1..(Len(fn.chunks) - 1) :
              /\ fn.chunks[i].start < fn.chunks[i + 1].start
              /\ Cardinality(Covered(fn.chunks[i]) \cap Covered(fn.chunks[i + 1]))
                    = fn.overlap
        /\ fn.pc = "done" =>
              /\ UNION {Covered(fn.chunks[i]) : i \in 1..Len(fn.chunks)}
                    = 0..(Len(fn.text) - 1)
              /\ Len(fn.value) = Len(fn.chunks)

C22_Witness ==
    /\ fn.pc = "done"
    /\ NoWhitespace(fn.text)
    /\ Len(fn.text) > fn.chunk_size
    /\ Len(fn.chunks) >= 3
    /\ fn.overlap >= 1

(***************************************************************************)
(* hybrid_boost (shared.py) called on a path and a list of query words.    *)
(***************************************************************************)
MaxWords == 3

BoostPaths ==
    {P_PLAN, P_QPY, P_R, <<>>, <<"p">>, <<"n", "/">>, <<"p", "/", "n">>,
     <<"n", "p", "/", "P", ".", "m", "d">>}
BoostWords ==
    {<<>>, <<"p">>, <<"n">>, <<"q">>, <<"r">>, <<"P">>, <<"m", "d">>,
     <<"n", "p">>, <<"n", "/", "p">>, <<"p", ".", "m", "d">>,
     <<"q", ".", "p", "y">>, <<"p", ".", "p", "y">>}
BoostWordLists == UNION {[1..n -> BoostWords] : n \in 0..MaxWords}

BoostInit ==
    /\ NoProcess
    /\ fn \in [pc : {"call"}, path : BoostPaths, query_words : BoostWordLists,
               value : {0}]

BoostCall ==
    /\ fn.pc = "call"
    /\ fn' = [fn EXCEPT !.pc = "done",
                        !.value = hybrid_boost(fn.path, fn.query_words)]
    /\ UNCHANGED daemon_vars
    /\ UNCHANGED <<hs, cl>>

SpecBoost == BoostInit /\ [][BoostCall]_vars

\* C23: for every path and every list of query words hybrid_boost returns a
\* value between 0 and 0.5 (50 hundredths), and 0 for an empty list of words.
C23_BoostRange ==
    fn.pc = "done" =>
        /\ 0 <= fn.value /\ fn.value <= 50
        /\ fn.query_words = <<>> => fn.value = 0

C23_Witness ==
    /\ fn.pc = "done"
    /\ fn.value = 50
    /\ Len(fn.query_words) = MaxWords
    /\ \E i, j \in 1..Len(fn.query_words) :
          i /= j /\ fn.query_words[i] = fn.query_words[j]

\* the word equals the lowercase filename, with or without a .py/.md suffix
ExactFilename(word, path) ==
    \E suffix \in {<<>>, <<".", "p", "y">>, <<".", "m", "d">>} :
        word \o suffix = lower(basename(path))

\* the filename candidate of one word: 0.4, 0.2 or none
FilenameCandidate(word, path) ==
    IF ExactFilename(word, path) THEN 40
    ELSE IF Contains(word, lower(basename(path))) THEN 20 ELSE 0

\* the path candidate of one word: 0.1 when neither filename case applies
PathCandidate(word, path) ==
    IF /\ ~ExactFilename(word, path)
       /\ ~Contains(word, lower(basename(path)))
       /\ Contains(word, lower(path))
    THEN 10 ELSE 0

Highest(S) == CHOOSE x \in S \cup {0} : \A y \in S \cup {0} : y <= x

\* the reference rule: the highest filename candidate plus the highest path
\* candidate over the words
ReferenceBoost(path, words) ==
    Highest({FilenameCandidate(words[i], path) : i \in 1..Len(words)})
    + Highest({PathCandidate(words[i], path) : i \in 1..Len(words)})

MaxPathLen == 4
NAME_LIMIT == 100

PathChars == {"/", "_", "a", ":"}
\* absolute paths as typed, normalized or not
AbsPaths ==
    {p \in UNION {[1..n -> PathChars] : n \in 1..MaxPathLen} : p[1] = "/"}

\* the components between the "/" of a path, the empty ones dropped
RECURSIVE Components(_, _)
Components(p, comp) ==
    IF p = <<>>
    THEN IF comp = <<>> THEN <<>> ELSE <<comp>>
    ELSE IF Head(p) = "/"
         THEN (IF comp = <<>> THEN <<>> ELSE <<comp>>) \o Components(Tail(p), <<>>)
         ELSE Components(Tail(p), Append(comp, Head(p)))

RECURSIVE JoinSlash(_)
JoinSlash(comps) ==
    IF comps = <<>> THEN <<>>
    ELSE IF Len(comps) = 1 THEN Head(comps)
    ELSE Head(comps) \o <<"/">> \o JoinSlash(Tail(comps))

\* os.path.normpath(os.path.abspath(p)) of an absolute POSIX path without
\* "." or ".." components: repeated and trailing "/" go, exactly two
\* leading "/" stay
normpath(p) ==
    LET two == /\ Len(p) >= 2 /\ p[2] = "/"
               /\ ~(Len(p) >= 3 /\ p[3] = "/")
    IN (IF two THEN <<"/", "/">> ELSE <<"/">>) \o JoinSlash(Components(p, <<>>))

\* s.replace(c, r) for a character c
RECURSIVE replace(_, _, _)
replace(s, c, r) ==
    IF s = <<>> THEN <<>>
    ELSE (IF Head(s) = c THEN r ELSE <<Head(s)>>) \o replace(Tail(s), c, r)

\* s.strip(c) for a character c
RECURSIVE strip_char(_, _)
strip_char(s, c) ==
    IF s = <<>> THEN s
    ELSE IF s[1] = c THEN strip_char(Tail(s), c)
    ELSE IF s[Len(s)] = c THEN strip_char(SubSeq(s, 1, Len(s) - 1), c)
    ELSE s

AUTOSCAN_PREFIX == <<"a", "u", "t", "o", "s", "c", "a", "n", "_">>

get_cache_name_for_path(dir_path) ==
    LET normalized == normpath(dir_path)
        safe_name == strip_char(replace(replace(replace(normalized, "\\", <<"_">>),
                                                "/", <<"_">>), ":", <<>>), "_")
    IN AUTOSCAN_PREFIX \o SubSeq(safe_name, 1, Min(Len(safe_name), NAME_LIMIT))

NoDir == <<>>

\* store: the autoscan caches of the central store, each with the directory
\* whose files it holds
NameInit ==
    /\ NoProcess
    /\ fn \in [pc : {"first"}, dir1 : AbsPaths, dir2 : AbsPaths, store : {{}},
               branch : {"none"}, used : {NoDir}]

\* one search_unindexed_directory(query, dir): the cache file of that name
\* is used when it exists, else the directory is scanned and the file written
NameSearch(dir, next) ==
    LET cache_name == get_cache_name_for_path(dir)
        cached == {c \in fn.store : c.name = cache_name}
    IN fn' = IF cached /= {}
             THEN [fn EXCEPT !.pc = next, !.branch = "cached",
                             !.used = (CHOOSE c \in cached : TRUE).dir]
             ELSE [fn EXCEPT !.pc = next, !.branch = "scanned", !.used = NoDir,
                             !.store = @ \cup {[name |-> cache_name, dir |-> dir]}]

NameFirst ==
    /\ fn.pc = "first"
    /\ NameSearch(fn.dir1, "second")
    /\ UNCHANGED daemon_vars
    /\ UNCHANGED <<hs, cl>>

NameSecond ==
    /\ fn.pc = "second"
    /\ NameSearch(fn.dir2, "done")
    /\ UNCHANGED daemon_vars
    /\ UNCHANGED <<hs, cl>>

NameNext == NameFirst \/ NameSecond

SpecCacheName == NameInit /\ [][NameNext]_vars

\* C24: get_cache_name_for_path is injective on normalized absolute paths:
\* two different directories never get the same cache name, so the search of
\* one never uses the cache written for the other.
C24_Injective ==
    (fn.pc = "done" /\ normpath(fn.dir1) = fn.dir1 /\ normpath(fn.dir2) = fn.dir2
     /\ fn.dir1 /= fn.dir2) =>
        /\ get_cache_name_for_path(fn.dir1) /= get_cache_name_for_path(fn.dir2)
        /\ fn.branch = "scanned"

(***************************************************************************)
(* remove_index (client.py): one call on the persisted files, with the     *)
(* reload notification of shared.try_daemon_reload.                        *)
(***************************************************************************)
RemoveNames == {"vault", "a", "ALL", "b"}

\* os_error: os.remove raises OSError; daemon_up: a daemon accepts connections;
\* before: the files as the call found them
RemoveInit ==
    /\ hs = NoCall
    /\ fn = NoCall
    /\ running = TRUE
    /\ indices = <<>>
    /\ pc = "loop"
    /\ conns = <<>>
    /\ served = 0
    /\ data = NoData
    /\ results = <<>>
    /\ new_indices = <<>>
    /\ todo = <<>>
    /\ model_calls = 0
    /\ fs \in FsStates
    /\ fs_ops = 0
    /\ cl \in [pc : {"call"}, index_name : RemoveNames, vault_path : VaultPaths,
               os_error : BOOLEAN, daemon_up : BOOLEAN, before : {fs},
               success : {FALSE}, out : {"none"}, reload_calls : {0},
               value : {"<None>"}]

\* the file the name designates is there, and in reach of the call
Removable(f, index_name, vault_path) ==
    /\ index_name \in FileNames
    /\ f.files[index_name].kind /= "absent"
    /\ IF index_name = "vault" THEN Truthy(vault_path) ELSE f.store

\* reload is requested whatever the deletion did
RemoveIndexReturn_Always ==
    /\ cl.pc = "deleted"
    /\ cl' = [cl EXCEPT !.pc = "done", !.value = cl.success,
                        !.reload_calls = @ + 1]
    /\ conns' = IF cl.daemon_up
                THEN Append(conns, [payload |-> ReloadPayload, stage |-> "queued",
                                    replies |-> <<>>])
                ELSE conns
    /\ UNCHANGED <<running, indices, pc, served, data, results, new_indices, todo,
                   model_calls, fs, fs_ops, hs, fn>>

\* the body up to the last `if success:`: the early return for a vault of
\* unknown place, else the attempt to delete and the message printed
RemoveIndexDelete ==
    /\ cl.pc = "call"
    /\ IF cl.index_name = "vault" /\ ~Truthy(cl.vault_path)
       THEN /\ cl' = [cl EXCEPT !.pc = "done", !.out = "needs_vault_path",
                                !.value = FALSE]
            /\ fs' = fs
       ELSE IF cl.index_name /= "vault" /\ ~fs.store
       THEN /\ cl' = [cl EXCEPT !.pc = "deleted", !.out = "no_store"]
            /\ fs' = fs
       ELSE IF ~Removable(fs, cl.index_name, cl.vault_path)
       THEN /\ cl' = [cl EXCEPT !.pc = "deleted", !.out = "not_found"]
            /\ fs' = fs
       ELSE IF cl.os_error
       THEN /\ cl' = [cl EXCEPT !.pc = "deleted", !.out = "error"]
            /\ fs' = fs
       ELSE /\ cl' = [cl EXCEPT !.pc = "deleted", !.out = "removed",
                                !.success = TRUE]
            /\ fs' = [fs EXCEPT !.files[cl.index_name] = Absent]
    /\ UNCHANGED <<running, indices, pc, conns, served, data, results, new_indices,
                   todo, model_calls, fs_ops, hs, fn>>

\* if success: try_daemon_reload(), return True; else return False
RemoveIndexReturn ==
    /\ cl.pc = "deleted"
    /\ cl' = [cl EXCEPT !.pc = "done", !.value = cl.success,
                        !.reload_calls = IF cl.success THEN @ + 1 ELSE @]
    /\ conns' = IF cl.success /\ cl.daemon_up
                THEN Append(conns, [payload |-> ReloadPayload, stage |-> "queued",
                                    replies |-> <<>>])
                ELSE conns
    /\ UNCHANGED <<running, indices, pc, served, data, results, new_indices, todo,
                   model_calls, fs, fs_ops, hs, fn>>

RemoveNext == RemoveIndexDelete \/ RemoveIndexReturn

SpecRemove == RemoveInit /\ [][RemoveNext]_vars

\* the names whose file the call deleted
Deleted ==
    {n \in FileNames : cl.before.files[n].kind /= "absent"
                       /\ fs.files[n].kind = "absent"}

\* the reload requests that reached the daemon's port
ReloadsSent == {i \in 1..Len(conns) : conns[i].payload = ReloadPayload}

\* C25: remove_index returns success and notifies the daemon to reload
\* exactly when it deleted the file of the named index; in every other case
\* (vault without a known vault path, file or store absent, deletion error)
\* no file is deleted, it returns failure and no reload is sent.
C25_RemoveOutcome ==
    cl.pc = "done" =>
        /\ cl.value = TRUE <=> Deleted = {cl.index_name}
        /\ cl.value = FALSE <=> fs = cl.before
        /\ cl.value \in BOOLEAN
        /\ cl.reload_calls = (IF cl.value THEN 1 ELSE 0)
        /\ Cardinality(ReloadsSent) = (IF cl.value /\ cl.daemon_up THEN 1 ELSE 0)
        /\ (\/ cl.index_name = "vault" /\ ~Truthy(cl.vault_path)
            \/ cl.index_name \notin FileNames
            \/ cl.before.files[cl.index_name].kind = "absent"
            \/ cl.index_name /= "vault" /\ ~cl.before.store
            \/ cl.os_error) => cl.value = FALSE

C25_Witness ==
    /\ cl.pc = "done"
    /\ cl.value = TRUE
    /\ cl.index_name = "vault"
    /\ cl.before.files["a"].kind = "ok"
    /\ fs.files["a"] = cl.before.files["a"]
    /\ ReloadsSent /= {}

(***************************************************************************)
(* The main block of client.py from the parsed arguments to the exit code. *)
(* query_len: the length of " ".join(args.query), -1 when no query word    *)
(* was given.                                                              *)
(***************************************************************************)
ArgQueryLens == {-1, 0, 5, MAX_QUERY_LENGTH, MAX_QUERY_LENGTH + 1}
ArgRemoves == {NoIndex, "", "a", "vault"}
SearchEnds == {"daemon_hits", "local_hits", "adhoc_hits", "empty", "none"}

ArgsInit ==
    /\ hs = NoCall
    /\ fn = NoCall
    /\ running = TRUE
    /\ indices = <<>>
    /\ pc = "loop"
    /\ conns = <<>>
    /\ served = 0
    /\ data = NoData
    /\ results = <<>>
    /\ new_indices = <<>>
    /\ todo = <<>>
    /\ model_calls = 0
    /\ fs = [store |-> FALSE, files |-> [n \in FileNames |-> Absent]]
    /\ fs_ops = 0
    /\ cl \in [pc : {"stop"}, stop : BOOLEAN, help : BOOLEAN,
               query_len : ArgQueryLens, refresh : BOOLEAN, list : BOOLEAN,
               remove : ArgRemoves, vault_path : VaultPaths,
               path : {"none"}, exit_code : {-1}]

\* sys.exit(code), or the end of the script for code 0
Exit(path, code) == cl' = [cl EXCEPT !.pc = "exited", !.path = path, !.exit_code = code]

Goto(next) == cl' = [cl EXCEPT !.pc = next]

ArgStop ==
    /\ cl.pc = "stop"
    /\ IF cl.stop THEN Exit("stop", 0) ELSE Goto("help")
    /\ UNCHANGED daemon_vars
    /\ UNCHANGED <<hs, fn>>

ArgHelp ==
    /\ cl.pc = "help"
    /\ IF cl.help \/ (cl.query_len < 0 /\ ~cl.refresh /\ ~cl.list /\ ~Truthy(cl.remove))
       THEN Exit("help", 0)
       ELSE Goto("vault_path")
    /\ UNCHANGED daemon_vars
    /\ UNCHANGED <<hs, fn>>

ArgVaultPath ==
    /\ cl.pc = "vault_path"
    /\ IF ~Truthy(cl.vault_path) THEN Exit("no_vault_path", 1) ELSE Goto("list")
    /\ UNCHANGED daemon_vars
    /\ UNCHANGED <<hs, fn>>

ArgList ==
    /\ cl.pc = "list"
    /\ IF cl.list THEN Exit("list", 0) ELSE Goto("remove")
    /\ UNCHANGED daemon_vars
    /\ UNCHANGED <<hs, fn>>

ArgRemove ==
    /\ cl.pc = "remove"
    /\ IF Truthy(cl.remove) THEN Exit("remove", 0) ELSE Goto("query")
    /\ UNCHANGED daemon_vars
    /\ UNCHANGED <<hs, fn>>

\* the refresh, when asked for, then the test of the query and of its length
ArgQuery ==
    /\ cl.pc = "query"
    /\ IF cl.query_len < 0
       THEN Exit("refresh", 0)
       ELSE IF cl.query_len > MAX_QUERY_LENGTH
            THEN Exit("too_long", 1)
            ELSE Goto("search")
    /\ UNCHANGED daemon_vars
    /\ UNCHANGED <<hs, fn>>

\* the cascade, whatever it finds, and the print that ends the script
ArgSearch ==
    /\ cl.pc = "search"
    /\ \E e \in SearchEnds : Exit(e, 0)
    /\ UNCHANGED daemon_vars
    /\ UNCHANGED <<hs, fn>>

ArgsNext ==
    ArgStop \/ ArgHelp \/ ArgVaultPath \/ ArgList \/ ArgRemove \/ ArgQuery \/ ArgSearch

SpecArgs == ArgsInit /\ [][ArgsNext]_vars

\* C26: the client exits with code 0 on every handled path (stop, help, list,
\* remove, refresh, search with any outcome, query rejected for its length)
\* and with another code only when the required vault path is missing.
C26_ExitCodes ==
    cl.pc = "exited" =>
        (cl.exit_code /= 0 <=> cl.path = "no_vault_path")

(***************************************************************************)
(* The daemon's handle_search and the client's search_indexed_files on the *)
(* same request (SpecSearch).                                              *)
(***************************************************************************)
\* the indices the daemon's loop visits, in order
DaemonNames ==
    [i \in 1..Len(ToSearch(hs.indices, hs.target_index)) |->
        ToSearch(hs.indices, hs.target_index)[i].name]

\* the indices the client's loop loads, in order
ClientNames == SelectSeq(hs.labels, LAMBDA n : Readable(hs.files, n))

\* an index among those searched whose paths are fewer than its vectors
MismatchSearched ==
    \E i \in 1..Len(ClientNames) :
        Len(hs.files.files[ClientNames[i]].paths)
            < Len(hs.files.files[ClientNames[i]].vectors)

\* C27: for the same ordered set of loaded indices and the same query,
\* threshold, scope and hybrid flag, search_indexed_files returns the same
\* list of (path, score, index) results, in the same order, as handle_search.
C27_SameFunction ==
    (hs.phase /= "call" /\ hs.lphase = "returned" /\ DaemonNames = ClientNames) =>
        (hs.phase = "returned" /\ hs.local = hs.result)

\* the two agree on every request that searches no mismatched index
C27_SameUnlessMismatch ==
    (hs.phase /= "call" /\ hs.lphase = "returned" /\ DaemonNames = ClientNames
     /\ ~MismatchSearched) =>
        (hs.phase = "returned" /\ hs.local = hs.result)

C27_AgreeWitness ==
    /\ hs.phase = "returned" /\ hs.lphase = "returned"
    /\ DaemonNames = ClientNames
    /\ Len(DaemonNames) = 3
    /\ Len(hs.result) >= 2
    /\ hs.hybrid

(***************************************************************************)
(* The daemon's mapping after a reload (Spec).                             *)
(***************************************************************************)
\* mapping m holds the names `names`, each with the arrays of its file in f
HoldsFiles(m, f, names) ==
    /\ DictKeys(m) = names
    /\ \A n \in names :
          /\ DictGet(m, n).paths = f.files[n].paths
          /\ DictGet(m, n).vectors = f.files[n].vectors

ReadableFiles(f) == {n \in FileNames : Readable(f, n)}

\* the names os.listdir returned that the loop has not reached yet
Pending == {todo[i] : i \in 1..Len(todo)}

\* the reload under way has read every file it has reached as the file is now
ReloadOnTrack ==
    CASE pc = "reload_vault" -> new_indices = <<>>
      [] pc = "reload_list" ->
            HoldsFiles(new_indices, fs, ReadableFiles(fs) \cap {"vault"})
      [] pc = "reload_file" ->
            /\ Pending \subseteq (IF fs.store THEN Listed(fs) ELSE {})
            /\ HoldsFiles(new_indices, fs, ReadableFiles(fs) \ Pending)
      [] OTHER -> FALSE

\* C28: after a reload completes, the mapping holds exactly the indices whose
\* files were readable during the reload, with the arrays of those files, and
\* nothing of the previous mapping survives, whatever was saved, removed or
\* reloaded before: the reload starts from an empty mapping, every step of it
\* that finds the files unchanged keeps the new mapping equal to the readable
\* files it has reached, and its last step makes exactly that the mapping in
\* use; a search then returns rows of the indices of that mapping only.
C28_ReloadExact ==
    [][ /\ (pc = "dispatch" /\ pc' = "reload_vault") => ReloadOnTrack'
        /\ (ReloadOnTrack /\ fs' = fs /\ pc' /= "reload_reply") => ReloadOnTrack'
        /\ (ReloadOnTrack /\ pc' = "reload_reply") =>
              HoldsFiles(indices', fs', ReadableFiles(fs'))
        /\ (pc = "dispatch" /\ pc' = "send_results") =>
              \A i \in 1..Len(results') : DictHas(indices, results'[i].index)
      ]_vars

\* a file was removed and the reload that followed dropped its index: the
\* mapping, which held the vault and both store indices, holds two of them
C28_Witness ==
    /\ pc = "reload_reply"
    /\ fs_ops = 1
    /\ fs.files["a"].kind = "absent"
    /\ DictKeys(indices) = {"vault", "ALL"}
    /\ HoldsFiles(indices, fs, ReadableFiles(fs))

====
